---- MODULE Spec2Model ----
(***************************************************************************)
(* finance-mcp: the intraday response normalization pipeline.              *)
(*                                                                         *)
(*   parser.IntradayPrices      raw bytes -> AlphaVantageResponse          *)
(*   extractTimeSeries          dynamic "Time Series (...)" key resolver   *)
(*   ProcessTimeSeries          record decoding (sequential / worker pool) *)
(*   processEntry               one raw record -> one normalized record    *)
(*   validateResponse           post-decode integrity check                *)
(*                                                                         *)
(* Go strings are modelled as sequences of one-character strings, so that  *)
(* strings.ToLower, strings.Contains, time.Parse, strconv.ParseFloat and   *)
(* strconv.ParseInt are computed character by character.                   *)
(***************************************************************************)
EXTENDS Integers, Sequences, FiniteSets, TLC

(***************************************************************************)
(* Characters and strings                                                  *)
(***************************************************************************)
Digits ==
    {"0", "1", "2", "3", "4", "5", "6", "7", "8", "9"}

DigitValue ==
    ("0" :> 0) @@ ("1" :> 1) @@ ("2" :> 2) @@ ("3" :> 3) @@ ("4" :> 4) @@
    ("5" :> 5) @@ ("6" :> 6) @@ ("7" :> 7) @@ ("8" :> 8) @@ ("9" :> 9)

LowerOf ==
    ("A" :> "a") @@ ("B" :> "b") @@ ("C" :> "c") @@ ("D" :> "d") @@
    ("E" :> "e") @@ ("F" :> "f") @@ ("G" :> "g") @@ ("H" :> "h") @@
    ("I" :> "i") @@ ("J" :> "j") @@ ("K" :> "k") @@ ("L" :> "l") @@
    ("M" :> "m") @@ ("N" :> "n") @@ ("O" :> "o") @@ ("P" :> "p") @@
    ("Q" :> "q") @@ ("R" :> "r") @@ ("S" :> "s") @@ ("T" :> "t") @@
    ("U" :> "u") @@ ("V" :> "v") @@ ("W" :> "w") @@ ("X" :> "x") @@
    ("Y" :> "y") @@ ("Z" :> "z")

\* strings.ToLower
ToLower(s) ==
    [i \in 1..Len(s) |-> IF s[i] \in DOMAIN LowerOf THEN LowerOf[s[i]] ELSE s[i]]

\* strings.Contains
Contains(s, sub) ==
    \E i \in 0..(Len(s) - Len(sub)) : SubSeq(s, i + 1, i + Len(sub)) = sub

\* s[i:] of Go with a 1-based first index
From(s, i) ==
    SubSeq(s, i, Len(s))

isDigit(s, i) ==
    i <= Len(s) /\ s[i] \in Digits

RECURSIVE DigitRun(_, _)
\* number of consecutive decimal digits of s starting at position i
DigitRun(s, i) ==
    IF isDigit(s, i) THEN 1 + DigitRun(s, i + 1) ELSE 0

RECURSIVE SpaceRun(_, _)
\* number of consecutive spaces of s starting at position i
SpaceRun(s, i) ==
    IF i <= Len(s) /\ s[i] = " " THEN 1 + SpaceRun(s, i + 1) ELSE 0

RECURSIVE StripLeadingZeros(_)
StripLeadingZeros(d) ==
    IF d # <<>> /\ Head(d) = "0" THEN StripLeadingZeros(Tail(d)) ELSE d

RECURSIVE TrailingZeros(_)
TrailingZeros(d) ==
    IF d # <<>> /\ d[Len(d)] = "0"
    THEN 1 + TrailingZeros(SubSeq(d, 1, Len(d) - 1)) ELSE 0

RECURSIVE Atoi(_)
\* value of a sequence of decimal digits
Atoi(d) ==
    IF d = <<>> THEN 0
    ELSE 10 * Atoi(SubSeq(d, 1, Len(d) - 1)) + DigitValue[d[Len(d)]]

RECURSIVE Pow10(_)
Pow10(n) ==
    IF n = 0 THEN 1 ELSE 10 * Pow10(n - 1)

RECURSIVE DigitsLess(_, _)
\* a < b for two digit sequences of the same length
DigitsLess(a, b) ==
    IF a = <<>> THEN FALSE
    ELSE IF Head(a) # Head(b) THEN DigitValue[Head(a)] < DigitValue[Head(b)]
    ELSE DigitsLess(Tail(a), Tail(b))

(***************************************************************************)
(* time.Parse("2006-01-02 15:04:05", value)                                *)
(*                                                                         *)
(* An instant is <<year, month, day, hour, min, sec, nsec>> in UTC; all    *)
(* fields are range-checked, so chronological order is lexicographic.      *)
(***************************************************************************)
NoTime ==
    <<0, 0, 0, 0, 0, 0, 0>>

\* time.getnum: one or two digits, exactly two when fixed
getnum(s, fixed) ==
    IF ~isDigit(s, 1) THEN [ok |-> FALSE, n |-> 0, rest |-> s]
    ELSE IF ~isDigit(s, 2)
         THEN IF fixed THEN [ok |-> FALSE, n |-> 0, rest |-> s]
              ELSE [ok |-> TRUE, n |-> DigitValue[s[1]], rest |-> From(s, 2)]
         ELSE [ok |-> TRUE, n |-> 10 * DigitValue[s[1]] + DigitValue[s[2]],
               rest |-> From(s, 3)]

\* time.skip for a one-character literal of the layout; a layout space
\* matches any run of spaces (also none at the end of the value)
skip(s, c) ==
    IF c = " "
    THEN IF Len(s) > 0 /\ s[1] # " " THEN [ok |-> FALSE, rest |-> s]
         ELSE [ok |-> TRUE, rest |-> From(s, SpaceRun(s, 1) + 1)]
    ELSE IF Len(s) = 0 \/ s[1] # c THEN [ok |-> FALSE, rest |-> s]
         ELSE [ok |-> TRUE, rest |-> From(s, 2)]

isLeap(year) ==
    year % 4 = 0 /\ (year % 100 # 0 \/ year % 400 = 0)

daysIn(month, year) ==
    IF month = 2 THEN (IF isLeap(year) THEN 29 ELSE 28)
    ELSE IF month \in {4, 6, 9, 11} THEN 30 ELSE 31

\* time.parseNanoseconds on the nbytes characters ".ddd" of s; digits past
\* the ninth are cut off
parseNanoseconds(s, nbytes) ==
    LET n == IF nbytes > 10 THEN 10 ELSE nbytes
    IN  Atoi(SubSeq(s, 2, n)) * Pow10(10 - n)

\* the optional fractional second that time.Parse accepts after the seconds
\* although the layout has none
parseFraction(s) ==
    IF Len(s) >= 2 /\ s[1] \in {".", ","} /\ isDigit(s, 2)
    THEN LET n == 1 + DigitRun(s, 2)
         IN  [nsec |-> parseNanoseconds(s, n), rest |-> From(s, n + 1)]
    ELSE [nsec |-> 0, rest |-> s]

\* time.Parse between two chunks of the layout: whether the value matched so
\* far, the rest of the value, the fields read.  stdYear is the chunk "2006"
stdYear(value) ==
    IF Len(value) >= 4 /\ DigitRun(value, 1) >= 4
    THEN [ok |-> TRUE, rest |-> From(value, 5),
          f |-> <<Atoi(SubSeq(value, 1, 4))>>]
    ELSE [ok |-> FALSE, rest |-> value, f |-> <<>>]

\* a literal chunk of the layout: "-", " " or ":"
stdLiteral(p, c) ==
    IF ~p.ok THEN p
    ELSE [ok |-> skip(p.rest, c).ok, rest |-> skip(p.rest, c).rest, f |-> p.f]

\* a numeric chunk ("01", "02", "15", "04", "05") with its range check
stdNumber(p, fixed, lo, hi) ==
    IF ~p.ok THEN p
    ELSE LET g == getnum(p.rest, fixed)
         IN  [ok |-> g.ok /\ lo <= g.n /\ g.n <= hi, rest |-> g.rest,
              f |-> Append(p.f, g.n)]

\* the end of the layout: the optional fraction, then no text may be left
stdEnd(p) ==
    IF ~p.ok THEN p
    ELSE LET frac == parseFraction(p.rest)
         IN  [ok |-> Len(frac.rest) = 0, rest |-> frac.rest,
              f |-> Append(p.f, frac.nsec)]

\* the day is checked against the month once every chunk has been read
dateOf(p) ==
    IF ~p.ok THEN [ok |-> FALSE, t |-> NoTime]
    ELSE IF p.f[3] < 1 \/ p.f[3] > daysIn(p.f[2], p.f[1])
    THEN [ok |-> FALSE, t |-> NoTime]
    ELSE [ok |-> TRUE, t |-> p.f]

\* time.Parse("2006-01-02 15:04:05", value)
ParseTime(value) ==
    dateOf(stdEnd(
        stdNumber(stdLiteral(
        stdNumber(stdLiteral(
        stdNumber(stdLiteral(
        stdNumber(stdLiteral(
        stdNumber(stdLiteral(stdYear(value),
                  "-"), TRUE, 1, 12),
                  "-"), TRUE, 0, 99),
                  " "), FALSE, 0, 23),
                  ":"), TRUE, 0, 59),
                  ":"), TRUE, 0, 59)))

RECURSIVE LexLess(_, _)
LexLess(a, b) ==
    IF a = <<>> THEN FALSE
    ELSE IF Head(a) # Head(b) THEN Head(a) < Head(b)
    ELSE LexLess(Tail(a), Tail(b))

\* time.Time.Before
Before(t, u) ==
    LexLess(t, u)

(***************************************************************************)
(* strconv.ParseFloat(s, 64), decimal and special forms.  A finite value   *)
(* is the exact decimal [neg, mant, exp] = (-1)^neg * mant * 10^exp with   *)
(* mant a digit sequence without leading or trailing zeros.  Hexadecimal   *)
(* mantissas (0x...p...) are not drawn as inputs.                          *)
(***************************************************************************)
NoFloat ==
    [kind |-> "zero", neg |-> FALSE, mant |-> <<>>, exp |-> 0]

\* strconv.special: [+-]inf, [+-]infinity, nan, in any letter case
special(s) ==
    LET signed == Len(s) > 0 /\ s[1] \in {"+", "-"}
        body   == ToLower(IF signed THEN Tail(s) ELSE s)
        neg    == signed /\ s[1] = "-"
    IN  IF body \in {<<"i", "n", "f">>,
                     <<"i", "n", "f", "i", "n", "i", "t", "y">>}
        THEN [ok |-> TRUE, f |-> [kind |-> "inf", neg |-> neg,
                                  mant |-> <<>>, exp |-> 0]]
        ELSE IF ~signed /\ body = <<"n", "a", "n">>
        THEN [ok |-> TRUE, f |-> [kind |-> "nan", neg |-> FALSE,
                                  mant |-> <<>>, exp |-> 0]]
        ELSE [ok |-> FALSE, f |-> NoFloat]

\* exact decimal of the digit sequences int.frac times 10^e
decimalOf(neg, int, frac, e) ==
    LET all  == StripLeadingZeros(int \o frac)
        tz   == TrailingZeros(all)
        mant == SubSeq(all, 1, Len(all) - tz)
    IN  IF mant = <<>>
        THEN [kind |-> "zero", neg |-> neg, mant |-> <<>>, exp |-> 0]
        ELSE [kind |-> "num", neg |-> neg, mant |-> mant,
              exp |-> e - Len(frac) + tz]

\* strconv.readFloat, the mantissa: digits with at most one point
readMantissa(s, i0) ==
    LET nInt   == DigitRun(s, i0)
        iDot   == i0 + nInt
        hasDot == iDot <= Len(s) /\ s[iDot] = "."
        nFrac  == IF hasDot THEN DigitRun(s, iDot + 1) ELSE 0
    IN  [nInt  |-> nInt,
         nFrac |-> nFrac,
         int   |-> SubSeq(s, i0, iDot - 1),
         frac  |-> IF hasDot THEN SubSeq(s, iDot + 1, iDot + nFrac) ELSE <<>>,
         iExp  |-> IF hasDot THEN iDot + 1 + nFrac ELSE iDot]

\* strconv.readFloat, the optional exponent from position iExp on; an
\* exponent of more than four digits is out of range whatever its value
readExponent(s, iExp) ==
    LET hasExp  == iExp <= Len(s) /\ s[iExp] \in {"e", "E"}
        eSigned == hasExp /\ iExp + 1 <= Len(s) /\ s[iExp + 1] \in {"+", "-"}
        iEDig   == IF eSigned THEN iExp + 2 ELSE iExp + 1
        nEDig   == IF hasExp THEN DigitRun(s, iEDig) ELSE 0
    IN  [ok   |-> ~hasExp \/ nEDig > 0,
         neg  |-> eSigned /\ s[iExp + 1] = "-",
         abs  |-> IF nEDig > 4 THEN 10000
                  ELSE Atoi(SubSeq(s, iEDig, iEDig + nEDig - 1)),
         iEnd |-> IF hasExp THEN iEDig + nEDig ELSE iExp]

\* the float64 range check of strconv.atof64 on an exact decimal
inRange(d) ==
    IF d.kind = "num" /\ Len(d.mant) + d.exp > 309
    THEN [ok |-> FALSE, f |-> NoFloat]
    ELSE [ok |-> TRUE, f |-> d]

\* strconv.atof64 on a mantissa m and an exponent x read from s
atof64(s, neg, m, x) ==
    IF m.nInt + m.nFrac = 0 THEN [ok |-> FALSE, f |-> NoFloat]
    ELSE IF ~x.ok THEN [ok |-> FALSE, f |-> NoFloat]
    ELSE IF x.iEnd # Len(s) + 1 THEN [ok |-> FALSE, f |-> NoFloat]
    ELSE inRange(decimalOf(neg, m.int, m.frac,
                           IF x.neg THEN 0 - x.abs ELSE x.abs))

readFloat(s, neg, m) ==
    atof64(s, neg, m, readExponent(s, m.iExp))

ParseFloat(s) ==
    IF special(s).ok THEN special(s)
    ELSE IF Len(s) > 0 /\ s[1] \in {"+", "-"}
    THEN readFloat(s, s[1] = "-", readMantissa(s, 2))
    ELSE readFloat(s, FALSE, readMantissa(s, 1))

(***************************************************************************)
(* strconv.ParseInt(s, 10, 64).  The value is [neg, digits] with digits    *)
(* free of leading zeros, so no machine arithmetic is needed.              *)
(***************************************************************************)
NoInt ==
    [neg |-> FALSE, digits |-> <<>>]

MaxInt64Digits ==
    <<"9", "2", "2", "3", "3", "7", "2", "0", "3", "6",
      "8", "5", "4", "7", "7", "5", "8", "0", "7">>

ParseInt(s) ==
    LET bad    == [ok |-> FALSE, n |-> NoInt]
        signed == Len(s) > 0 /\ s[1] \in {"+", "-"}
        neg    == signed /\ s[1] = "-"
        body   == IF signed THEN Tail(s) ELSE s
        digits == StripLeadingZeros(body)
        \* |value| > 2^63 - 1; -2^63 itself is in range
        over   == \/ Len(digits) > 19
                  \/ /\ Len(digits) = 19
                     /\ DigitsLess(MaxInt64Digits, digits)
                     /\ ~(neg /\ digits = SubSeq(MaxInt64Digits, 1, 18) \o <<"8">>)
    IN  IF body = <<>> \/ DigitRun(body, 1) # Len(body) THEN bad
        ELSE IF over THEN bad
        ELSE [ok |-> TRUE,
              n  |-> [neg |-> neg /\ digits # <<>>, digits |-> digits]]

(***************************************************************************)
(* JSON documents as sonic decodes them.  A value is [t, v]: t the JSON    *)
(* type and v the string or number text, or the map of an object.         *)
(* InvalidJSON stands for bytes that are not a JSON document.              *)
(***************************************************************************)
JString(s) ==
    [t |-> "string", v |-> s]

JNumber(s) ==
    [t |-> "number", v |-> s]

JObject(m) ==
    [t |-> "object", v |-> m]

JNull ==
    [t |-> "null", v |-> <<>>]

InvalidJSON ==
    [t |-> "invalid", v |-> <<>>]

\* the map of the empty JSON object {}
EmptyMap ==
    <<>>

\* fmt %v of a decoded JSON value
Render(j) ==
    IF j.t \in {"string", "number"} THEN j.v
    ELSE IF j.t = "null" THEN <<"<", "n", "i", "l", ">">>
    ELSE <<"m", "a", "p", "[", "]">>

(***************************************************************************)
(* Errors: kind is the fixed text of the message, text the value that the  *)
(* message carries (upstream text, timestamp, symbol).                     *)
(***************************************************************************)
Err(kind, text) ==
    [kind |-> kind, text |-> text]

NoErr ==
    Err("nil", <<>>)

UpstreamKinds ==
    {"API error", "API note (likely rate limit)", "API rate limit reached",
     "API information"}

DecodeKinds ==
    {"error parsing timestamp", "error parsing open price",
     "error parsing high price", "error parsing low price",
     "error parsing close price", "error parsing volume"}

(***************************************************************************)
(* Keys and texts of the wire format                                       *)
(***************************************************************************)
kErrorMessage ==
    <<"E", "r", "r", "o", "r", " ", "M", "e", "s", "s", "a", "g", "e">>

kNote ==
    <<"N", "o", "t", "e">>

kInformation ==
    <<"I", "n", "f", "o", "r", "m", "a", "t", "i", "o", "n">>

kMetaData ==
    <<"M", "e", "t", "a", " ", "D", "a", "t", "a">>

kMdInformation ==
    <<"1", ".", " ", "I", "n", "f", "o", "r", "m", "a", "t", "i", "o", "n">>

kMdSymbol ==
    <<"2", ".", " ", "S", "y", "m", "b", "o", "l">>

kMdLastRefreshed ==
    <<"3", ".", " ", "L", "a", "s", "t", " ", "R", "e", "f", "r", "e", "s", "h", "e", "d">>

kMdInterval ==
    <<"4", ".", " ", "I", "n", "t", "e", "r", "v", "a", "l">>

kMdOutputSize ==
    <<"5", ".", " ", "O", "u", "t", "p", "u", "t", " ", "S", "i", "z", "e">>

kMdTimeZone ==
    <<"6", ".", " ", "T", "i", "m", "e", " ", "Z", "o", "n", "e">>

kOpen ==
    <<"1", ".", " ", "o", "p", "e", "n">>

kHigh ==
    <<"2", ".", " ", "h", "i", "g", "h">>

kLow ==
    <<"3", ".", " ", "l", "o", "w">>

kClose ==
    <<"4", ".", " ", "c", "l", "o", "s", "e">>

kVolume ==
    <<"5", ".", " ", "v", "o", "l", "u", "m", "e">>

sTimeSeries ==
    <<"t", "i", "m", "e", " ", "s", "e", "r", "i", "e", "s">>

sRateLimit ==
    <<"r", "a", "t", "e", " ", "l", "i", "m", "i", "t">>

sPremium ==
    <<"p", "r", "e", "m", "i", "u", "m">>

(***************************************************************************)
(* parser.MetaData, parser.OHLCV and the structured decoding of            *)
(* sonic.Unmarshal(jsonData, &response)                                    *)
(***************************************************************************)
ZeroMetaData ==
    [Information |-> <<>>, Symbol |-> <<>>, LastRefreshed |-> <<>>,
     Interval |-> <<>>, OutputSize |-> <<>>, TimeZone |-> <<>>]

ZeroOHLCV ==
    [Open |-> <<>>, High |-> <<>>, Low |-> <<>>, Close |-> <<>>, Volume |-> <<>>]

\* the response value of a call that returns nil
NilResponse ==
    [MetaData |-> ZeroMetaData, TimeSeries |-> EmptyMap, nilSeries |-> TRUE]

\* a string field of a struct: absent and null leave the zero value, a
\* string sets it, any other JSON type is a type mismatch
stringFieldOk(m, key) ==
    key \in DOMAIN m => m[key].t \in {"string", "null"}

stringField(m, key) ==
    IF key \in DOMAIN m /\ m[key].t = "string" THEN m[key].v ELSE <<>>

MetaDataKeys ==
    {kMdInformation, kMdSymbol, kMdLastRefreshed, kMdInterval, kMdOutputSize,
     kMdTimeZone}

\* decoding of the "Meta Data" member into the MetaData struct
unmarshalMetaData(raw) ==
    IF kMetaData \notin DOMAIN raw \/ raw[kMetaData].t = "null"
    THEN [ok |-> TRUE, md |-> ZeroMetaData]
    ELSE IF raw[kMetaData].t # "object"
    THEN [ok |-> FALSE, md |-> ZeroMetaData]
    ELSE LET m == raw[kMetaData].v
         IN  IF \E k \in MetaDataKeys : ~stringFieldOk(m, k)
             THEN [ok |-> FALSE, md |-> ZeroMetaData]
             ELSE [ok |-> TRUE,
                   md |-> [Information   |-> stringField(m, kMdInformation),
                           Symbol        |-> stringField(m, kMdSymbol),
                           LastRefreshed |-> stringField(m, kMdLastRefreshed),
                           Interval      |-> stringField(m, kMdInterval),
                           OutputSize    |-> stringField(m, kMdOutputSize),
                           TimeZone      |-> stringField(m, kMdTimeZone)]]

(***************************************************************************)
(* extractTimeSeries.  Go ranges over a map in an unspecified order, so    *)
(* the first key that matches is any key that matches: the operator gives  *)
(* the set of outcomes the call can have.                                  *)
(***************************************************************************)
\* variant: the key is compared without lowering its case
MatchingKeys_CaseSensitive(raw) ==
    {k \in DOMAIN raw : Contains(k, sTimeSeries)}

\* the keys the loop at lines 105-111 can stop at
MatchingKeys(raw) ==
    {k \in DOMAIN raw : Contains(ToLower(k), sTimeSeries)}

\* lines 131-162: a sub-field that is absent or not a string stays ""
ohlcvOf(m) ==
    [Open   |-> stringField(m, kOpen),
     High   |-> stringField(m, kHigh),
     Low    |-> stringField(m, kLow),
     Close  |-> stringField(m, kClose),
     Volume |-> stringField(m, kVolume)]

\* variant: an entry that lacks one of the five sub-fields is skipped too
extractEntries_DropIncomplete(tsMap) ==
    [ts \in {k \in DOMAIN tsMap :
                /\ tsMap[k].t = "object"
                /\ {kOpen, kHigh, kLow, kClose, kVolume} \subseteq DOMAIN tsMap[k].v}
        |-> ohlcvOf(tsMap[ts].v)]

\* lines 123-165: entries that are not objects are skipped
extractEntries(tsMap) ==
    [ts \in {k \in DOMAIN tsMap : tsMap[k].t = "object"} |-> ohlcvOf(tsMap[ts].v)]

\* the outcome when the loop stops at key
extractAt(raw, key) ==
    IF raw[key].t # "object"
    THEN [err |-> Err("time series data is not in expected format", <<>>),
          TimeSeries |-> EmptyMap]
    ELSE [err |-> NoErr, TimeSeries |-> extractEntries(raw[key].v)]

extractTimeSeries(rawNil, raw) ==
    IF rawNil
    THEN {[err |-> Err("no raw data available", <<>>), TimeSeries |-> EmptyMap]}
    ELSE IF MatchingKeys(raw) = {}
    THEN {[err |-> Err("no time series data found in response", <<>>),
           TimeSeries |-> EmptyMap]}
    ELSE {extractAt(raw, key) : key \in MatchingKeys(raw)}

(***************************************************************************)
(* IntradayPrices: the set of outcomes [err, resp] of one call             *)
(***************************************************************************)
Fail(e) ==
    [err |-> e, resp |-> NilResponse]

\* lines 67-83 on a decoded envelope; "nil" when no error key applies
classify(raw) ==
    IF kErrorMessage \in DOMAIN raw
    THEN Err("API error", Render(raw[kErrorMessage]))
    ELSE IF kNote \in DOMAIN raw
    THEN Err("API note (likely rate limit)", Render(raw[kNote]))
    ELSE IF kInformation \in DOMAIN raw /\ raw[kInformation].t = "string"
    THEN IF \/ Contains(ToLower(raw[kInformation].v), sRateLimit)
            \/ Contains(ToLower(raw[kInformation].v), sPremium)
         THEN Err("API rate limit reached", raw[kInformation].v)
         ELSE Err("API information", raw[kInformation].v)
    ELSE NoErr

IntradayPrices(jsonData) ==
    LET rawNil == jsonData.t = "null"
        raw    == IF jsonData.t = "object" THEN jsonData.v ELSE EmptyMap
        meta   == unmarshalMetaData(raw)
    IN  IF jsonData.t \notin {"object", "null"}
        THEN {Fail(Err("error parsing JSON into raw map", <<>>))}
        ELSE IF ~meta.ok
        THEN {Fail(Err("error parsing JSON into structured response", <<>>))}
        ELSE IF classify(raw) # NoErr
        THEN {Fail(classify(raw))}
        ELSE {IF x.err # NoErr THEN Fail(x.err)
              ELSE [err  |-> NoErr,
                    resp |-> [MetaData   |-> meta.md,
                              TimeSeries |-> x.TimeSeries,
                              nilSeries  |-> FALSE]]
              : x \in extractTimeSeries(rawNil, raw)}

(***************************************************************************)
(* processEntry and models.OHLCVFloat                                      *)
(***************************************************************************)
ZeroOHLCVFloat ==
    [Timestamp |-> NoTime, Open |-> NoFloat, High |-> NoFloat, Low |-> NoFloat,
     Close |-> NoFloat, Volume |-> NoInt]

\* lines 259-298 on the results of the six conversions: the first one
\* that failed gives the error
entryOf(timestampStr, timestamp, open, high, low, close, volume) ==
    LET bad(kind) == [err |-> Err(kind, timestampStr), rec |-> ZeroOHLCVFloat]
    IN  IF ~timestamp.ok THEN bad("error parsing timestamp")
        ELSE IF ~open.ok THEN bad("error parsing open price")
        ELSE IF ~high.ok THEN bad("error parsing high price")
        ELSE IF ~low.ok THEN bad("error parsing low price")
        ELSE IF ~close.ok THEN bad("error parsing close price")
        ELSE IF ~volume.ok THEN bad("error parsing volume")
        ELSE [err |-> NoErr,
              rec |-> [Timestamp |-> timestamp.t, Open |-> open.f,
                       High |-> high.f, Low |-> low.f, Close |-> close.f,
                       Volume |-> volume.n]]

processEntry(timestampStr, ohlcv) ==
    entryOf(timestampStr, ParseTime(timestampStr), ParseFloat(ohlcv.Open),
            ParseFloat(ohlcv.High), ParseFloat(ohlcv.Low),
            ParseFloat(ohlcv.Close), ParseInt(ohlcv.Volume))

(***************************************************************************)
(* sort.Slice by Timestamp.Before (lines 251-253).  sort.Slice is not      *)
(* stable: records with equal instants may come out in either order, so    *)
(* the operator gives every ordering that the comparison admits.           *)
(***************************************************************************)
Perms(n) ==
    {p \in [1..n -> 1..n] : \A i, j \in 1..n : i # j => p[i] # p[j]}

IsSorted(s) ==
    \A i \in 1..(Len(s) - 1) : ~Before(s[i + 1].Timestamp, s[i].Timestamp)

\* variant: the final sort is left out
SortByTimestamp_Unsorted(s) ==
    {s}

SortByTimestamp(s) ==
    {q \in {[i \in 1..Len(s) |-> s[p[i]]] : p \in Perms(Len(s))} : IsSorted(q)}

(***************************************************************************)
(* validateResponse (models/outputs.go lines 335-350)                      *)
(***************************************************************************)
\* variant: the record sequence is checked before the metadata
validateResponse_LengthFirst(data, symbol) ==
    IF Len(data.TimeSeries) = 0
    THEN Err("no time series data returned", symbol)
    ELSE IF data.MetaData.Symbol = <<>>
    THEN Err("no data returned for symbol", symbol)
    ELSE IF data.MetaData.Interval = <<>>
    THEN Err("invalid response: missing interval information", symbol)
    ELSE NoErr

\* variant: the check of the record sequence is left out
validateResponse_NoLengthCheck(data, symbol) ==
    IF data.MetaData.Symbol = <<>>
    THEN Err("no data returned for symbol", symbol)
    ELSE IF data.MetaData.Interval = <<>>
    THEN Err("invalid response: missing interval information", symbol)
    ELSE NoErr

validateResponse(data, symbol) ==
    IF data.MetaData.Symbol = <<>>
    THEN Err("no data returned for symbol", symbol)
    ELSE IF data.MetaData.Interval = <<>>
    THEN Err("invalid response: missing interval information", symbol)
    ELSE IF Len(data.TimeSeries) = 0
    THEN Err("no time series data returned", symbol)
    ELSE NoErr

(***************************************************************************)
(* Bounds                                                                  *)
(***************************************************************************)
\* largest number of entries of a series mapping
MaxEntries ==
    3

\* size of the worker pool (numWorkers, 8 in the source), scaled down so
\* that every worker can stop on a decode failure
NumWorkers ==
    2

\* series length from which the worker pool is used (1000 in the source,
\* line 185), scaled down to the series the model draws
ParallelThreshold ==
    2

Workers ==
    1..NumWorkers

\* the pipeline is run twice on the same bytes
Runs ==
    {1, 2}

(***************************************************************************)
(* Response bodies the upstream can send                                   *)
(***************************************************************************)
kTimeSeries5min ==
    <<"T", "i", "m", "e", " ", "S", "e", "r", "i", "e", "s", " ", "(", "5", "m", "i", "n", ")">>

kTimeSeriesUpper ==
    <<"T", "I", "M", "E", " ", "S", "E", "R", "I", "E", "S", " ", "(", "1", "M", "I", "N", ")">>

kSeriesOnly ==
    <<"S", "e", "r", "i", "e", "s">>

ts1600 ==
    <<"2", "0", "2", "4", "-", "0", "1", "-", "1", "5", " ", "1", "6", ":", "0", "0", ":", "0", "0">>

ts1559 ==
    <<"2", "0", "2", "4", "-", "0", "1", "-", "1", "5", " ", "1", "5", ":", "5", "9", ":", "0", "0">>

ts1600frac ==
    <<"2", "0", "2", "4", "-", "0", "1", "-", "1", "5", " ", "1", "6", ":", "0", "0", ":", "0", "0", ".", "0">>

ts1558 ==
    <<"2", "0", "2", "4", "-", "0", "1", "-", "1", "5", " ", "1", "5", ":", "5", "8", ":", "0", "0">>

ts1557 ==
    <<"2", "0", "2", "4", "-", "0", "1", "-", "1", "5", " ", "1", "5", ":", "5", "7", ":", "0", "0">>

ts1556 ==
    <<"2", "0", "2", "4", "-", "0", "1", "-", "1", "5", " ", "1", "5", ":", "5", "6", ":", "0", "0">>

tsInvalid ==
    <<"i", "n", "v", "a", "l", "i", "d", "-", "t", "i", "m", "e", "s", "t", "a", "m", "p">>

vNotANumber ==
    <<"n", "o", "t", "-", "a", "-", "n", "u", "m", "b", "e", "r">>

v38050 ==
    <<"3", "8", "0", ".", "5", "0">>

v38020 ==
    <<"3", "8", "0", ".", "2", "0">>

v38100 ==
    <<"3", "8", "1", ".", "0", "0">>

v75000 ==
    <<"7", "5", "0", "0", "0">>

sMSFT ==
    <<"M", "S", "F", "T">>

s1min ==
    <<"1", "m", "i", "n">>

sOops ==
    <<"o", "o", "p", "s">>

sInvalidCall ==
    <<"I", "n", "v", "a", "l", "i", "d", " ", "A", "P", "I", " ", "c", "a", "l", "l">>

sCallsPerMinute ==
    <<"5", " ", "c", "a", "l", "l", "s", " ", "p", "e", "r", " ", "m", "i", "n", "u", "t", "e">>

sGeneral ==
    <<"g", "e", "n", "e", "r", "a", "l", " ", "i", "n", "f", "o", "r", "m", "a", "t", "i", "o", "n">>

sPremiumPlan ==
    <<"P", "r", "e", "m", "i", "u", "m", " ", "p", "l", "a", "n">>

s42 ==
    <<"4", "2">>

\* an optional member of an object
Absent ==
    [t |-> "absent", v |-> <<>>]

Member(key, j) ==
    IF j = Absent THEN EmptyMap ELSE (key :> j)

\* a raw record with the five sub-fields; open is the one that varies
RawRecord(open) ==
    JObject((kOpen :> JString(open)) @@ (kHigh :> JString(v38100)) @@
            (kLow :> JString(v38020)) @@ (kClose :> JString(v38050)) @@
            (kVolume :> JString(v75000)))

\* a raw record without the "1. open" sub-field
RawRecordNoOpen ==
    JObject((kHigh :> JString(v38100)) @@ (kLow :> JString(v38020)) @@
            (kClose :> JString(v38050)) @@ (kVolume :> JString(v75000)))

\* candidate entries <<timestamp key, value>> of a series mapping; ts1600
\* and ts1600frac are distinct keys for the same instant
EntryPool ==
    {<<ts1600, RawRecord(v38050)>>,
     <<ts1559, RawRecord(v38020)>>,
     <<ts1600frac, RawRecord(v38100)>>,
     <<tsInvalid, RawRecord(v38050)>>,
     <<ts1558, RawRecord(vNotANumber)>>,
     <<ts1557, RawRecordNoOpen>>,
     <<ts1556, JString(sOops)>>}

SeriesOf(S) ==
    [k \in {e[1] : e \in S} |-> (CHOOSE e \in S : e[1] = k)[2]]

AllSeries ==
    {SeriesOf(S) : S \in {T \in SUBSET EntryPool : Cardinality(T) <= MaxEntries}}

MetaOf(symbol, interval) ==
    JObject(Member(kMdSymbol, symbol) @@ Member(kMdInterval, interval))

GoodMeta ==
    MetaOf(JString(sMSFT), JString(s1min))

Envelope(errorMessage, note, information, meta, series, series2) ==
    JObject(Member(kErrorMessage, errorMessage) @@ Member(kNote, note) @@
            Member(kInformation, information) @@ Member(kMetaData, meta) @@
            Member(kTimeSeries5min, series) @@
            Member(kTimeSeriesUpper, series2))

\* data envelopes: metadata and one series of up to MaxEntries entries
SeriesBodies ==
    {Envelope(Absent, Absent, Absent, GoodMeta, JObject(ts), Absent) :
        ts \in AllSeries}

\* envelopes whose metadata lacks the symbol or the interval
MetaBodies ==
    {Envelope(Absent, Absent, Absent, meta, JObject(ts), Absent) :
        meta \in {Absent, MetaOf(JString(<<>>), JString(s1min)),
                  MetaOf(JString(sMSFT), Absent)},
        ts \in {EmptyMap, SeriesOf({<<ts1600, RawRecord(v38050)>>})}}

\* envelopes with upstream error keys, with and without data next to them
ErrorBodies ==
    {Envelope(em, note, info, meta, series, Absent) :
        em \in {Absent, JString(sInvalidCall)},
        note \in {Absent, JString(sCallsPerMinute)},
        info \in {Absent, JString(sGeneral), JString(sPremiumPlan), JNumber(s42)},
        meta \in {Absent, GoodMeta, JString(sOops)},
        series \in {Absent, JObject(SeriesOf({<<ts1600, RawRecord(v38050)>>}))}}

\* envelopes with zero, one or two keys that contain "time series"
KeyBodies ==
    {JObject(Member(kMetaData, GoodMeta) @@ Member(kSeriesOnly, JObject(EmptyMap))
             @@ Member(kTimeSeries5min, series) @@ Member(kTimeSeriesUpper, series2)) :
        series \in {Absent, JString(sOops), JObject(EmptyMap),
                    JObject(SeriesOf({<<ts1600, RawRecord(v38050)>>}))},
        series2 \in {Absent, JNumber(s42),
                     JObject(SeriesOf({<<ts1559, RawRecord(v38020)>>}))}}

Bodies ==
    SeriesBodies \cup MetaBodies \cup ErrorBodies \cup KeyBodies
        \cup {InvalidJSON, JNull, JString(sOops)}

\* the symbol of the request
RequestSymbol ==
    sMSFT

(***************************************************************************)
(* Request validation: validation.ValidateSymbol and validateInput.  A Go   *)
(* string is a sequence of bytes: len and indexing count bytes, range and  *)
(* TrimSpace work on code points.  A character of the model is one ASCII   *)
(* character or a token "U+XXXX" for a code point of two UTF-8 bytes.      *)
(***************************************************************************)
TwoByteChars ==
    {"U+00E9", "U+00A0"}

\* the UTF-8 encoding of one character
Utf8(c) ==
    IF c = "U+00E9" THEN <<"0xC3", "0xA9">>
    ELSE IF c = "U+00A0" THEN <<"0xC2", "0xA0">>
    ELSE <<c>>

\* the bytes of a string: what len(s) counts and s[i] indexes
RECURSIVE Bytes(_)
Bytes(s) ==
    IF s = <<>> THEN <<>> ELSE Utf8(Head(s)) \o Bytes(Tail(s))

\* unicode.IsSpace on the characters drawn
SpaceChars ==
    {" ", "\t", "\n", "\r", "U+00A0"}

RECURSIVE TrimLeft(_)
TrimLeft(s) ==
    IF s # <<>> /\ Head(s) \in SpaceChars THEN TrimLeft(Tail(s)) ELSE s

RECURSIVE TrimRight(_)
TrimRight(s) ==
    IF s # <<>> /\ s[Len(s)] \in SpaceChars
    THEN TrimRight(SubSeq(s, 1, Len(s) - 1)) ELSE s

\* strings.TrimSpace
TrimSpace(s) ==
    TrimRight(TrimLeft(s))

\* symbol.go lines 30-33: A-Z, a-z, 0-9 and the dot
isSymbolChar(c) ==
    \/ c \in DOMAIN LowerOf
    \/ c \in {LowerOf[u] : u \in DOMAIN LowerOf}
    \/ c \in Digits
    \/ c = "."

\* lines 17-38 of symbol.go on the trimmed symbol
checkTrimmed(trimmed) ==
    IF trimmed = <<>>
    THEN Err("symbol cannot be empty", <<>>)
    ELSE IF Len(Bytes(trimmed)) > 10
    THEN Err("symbol appears to be invalid (too long)", trimmed)
    ELSE IF \E i \in 1..Len(trimmed) : ~isSymbolChar(trimmed[i])
    THEN Err("symbol contains invalid characters", trimmed)
    ELSE NoErr

ValidateSymbol(symbol) ==
    checkTrimmed(TrimSpace(symbol))

\* an optional field of the request: a nil pointer or a pointer to v
NilString ==
    [set |-> FALSE, v |-> <<>>]

NilBool ==
    [set |-> FALSE, v |-> FALSE]

Ptr(v) ==
    [set |-> TRUE, v |-> v]

symEmpty ==
    <<>>

symSpaces ==
    <<" ", " ", " ">>

symAAPL ==
    <<"A", "A", "P", "L">>

symPadded ==
    <<" ", " ", "a", "a", "p", "l", " ", " ">>

symBRKA ==
    <<"B", "R", "K", ".", "A">>

symTen ==
    <<"A", "B", "C", "D", "E", "F", "G", "H", "I", "J">>

symTenPadded ==
    <<" ", "A", "B", "C", "D", "E", "F", "G", "H", "I", "J", " ">>

symEleven ==
    <<"A", "B", "C", "D", "E", "F", "G", "H", "I", "J", "K">>

symLong ==
    <<"V", "E", "R", "Y", "L", "O", "N", "G", "S", "Y", "M", "B", "O", "L">>

symBang ==
    <<"A", "A", "P", "L", "!">>

symInner ==
    <<"A", "A", " ", "P", "L">>

symLongBang ==
    <<"V", "E", "R", "Y", "L", "O", "N", "G", "S", "Y", "M", "!">>

symTabbed ==
    <<"\t", "M", "S", "F", "T", "\n">>

symNbsp ==
    <<"U+00A0", "A", "A", "P", "L">>

symAccents ==
    <<"U+00E9", "U+00E9", "U+00E9", "U+00E9", "U+00E9", "U+00E9", "U+00E9">>

symAccent ==
    <<"C", "A", "F", "U+00E9">>

s5min ==
    <<"5", "m", "i", "n">>

s15min ==
    <<"1", "5", "m", "i", "n">>

s30min ==
    <<"3", "0", "m", "i", "n">>

s60min ==
    <<"6", "0", "m", "i", "n">>

s2min ==
    <<"2", "m", "i", "n">>

s1MIN ==
    <<"1", "M", "I", "N">>

sCompact ==
    <<"c", "o", "m", "p", "a", "c", "t">>

sFull ==
    <<"f", "u", "l", "l">>

sMedium ==
    <<"m", "e", "d", "i", "u", "m">>

m202301 ==
    <<"2", "0", "2", "3", "-", "0", "1">>

m20231 ==
    <<"2", "0", "2", "3", "-", "1">>

m202313 ==
    <<"2", "0", "2", "3", "-", "1", "3">>

mLetters ==
    <<"a", "b", "c", "d", "-", "e", "f">>

mSlash ==
    <<"2", "0", "2", "3", "/", "0", "1">>

mLong ==
    <<"2", "0", "2", "3", "-", "0", "1", "1">>

mAccent ==
    <<"2", "0", "2", "4", "-", "U+00E9">>

validIntervals ==
    <<s1min, s5min, s15min, s30min, s60min>>

validOutputSizes ==
    <<sCompact, sFull>>

\* slices.Contains
slicesContains(list, x) ==
    \E i \in 1..Len(list) : list[i] = x

\* lines 212-218: len(month) != 7 || month[4] != '-', on bytes
\* variant: the month number is checked against the calendar
monthShapeOk_Calendar(month) ==
    /\ Len(Bytes(month)) = 7
    /\ Bytes(month)[5] = "-"
    /\ SubSeq(Bytes(month), 6, 7) \in
           {<<"0", d>> : d \in Digits \ {"0"}} \cup
           {<<"1", "0">>, <<"1", "1">>, <<"1", "2">>}

monthShapeOk(month) ==
    Len(Bytes(month)) = 7 /\ Bytes(month)[5] = "-"

\* variant: the interval is checked before the symbol
validateInput_IntervalFirst(input) ==
    IF ~slicesContains(validIntervals, input.Interval)
    THEN Err("invalid interval", input.Interval)
    ELSE IF ValidateSymbol(input.Symbol) # NoErr
    THEN ValidateSymbol(input.Symbol)
    ELSE IF input.OutputSize.set
            /\ ~slicesContains(validOutputSizes, input.OutputSize.v)
    THEN Err("invalid output size", input.OutputSize.v)
    ELSE IF input.Month.set /\ ~monthShapeOk(input.Month.v)
    THEN Err("invalid month format", input.Month.v)
    ELSE NoErr

\* IntradayPriceStock.validateInput
validateInput(input) ==
    IF ValidateSymbol(input.Symbol) # NoErr
    THEN ValidateSymbol(input.Symbol)
    ELSE IF ~slicesContains(validIntervals, input.Interval)
    THEN Err("invalid interval", input.Interval)
    ELSE IF input.OutputSize.set
            /\ ~slicesContains(validOutputSizes, input.OutputSize.v)
    THEN Err("invalid output size", input.OutputSize.v)
    ELSE IF input.Month.set /\ ~monthShapeOk(input.Month.v)
    THEN Err("invalid month format", input.Month.v)
    ELSE NoErr

\* models.IntradayPriceInput
IntradayPriceInput(symbol, interval, month, outputSize) ==
    [Symbol |-> symbol, Interval |-> interval, Adjusted |-> NilBool,
     ExtendedHours |-> NilBool, Month |-> month, OutputSize |-> outputSize]

(***************************************************************************)
(* buildQueries (lines 224-248)                                            *)
(***************************************************************************)
sFunction ==
    <<"T", "I", "M", "E", "_", "S", "E", "R", "I", "E", "S", "_",
      "I", "N", "T", "R", "A", "D", "A", "Y">>

\* request.NewQuery
NewQuery(name, value) ==
    [Name |-> name, Value |-> value]

\* fmt.Sprintf("%t", b)
formatBool(b) ==
    IF b THEN <<"t", "r", "u", "e">> ELSE <<"f", "a", "l", "s", "e">>

\* the append of one optional parameter
appendIf(set, q) ==
    IF set THEN <<q>> ELSE <<>>

\* variant: the output size is appended before the month
buildQueries_SizeBeforeMonth(in) ==
    <<NewQuery("function", sFunction), NewQuery("interval", in.Interval)>>
        \o appendIf(in.Adjusted.set,
                    NewQuery("adjusted", formatBool(in.Adjusted.v)))
        \o appendIf(in.ExtendedHours.set,
                    NewQuery("extended_hours", formatBool(in.ExtendedHours.v)))
        \o appendIf(in.OutputSize.set, NewQuery("outputsize", in.OutputSize.v))
        \o appendIf(in.Month.set, NewQuery("month", in.Month.v))

buildQueries(in) ==
    <<NewQuery("function", sFunction), NewQuery("interval", in.Interval)>>
        \o appendIf(in.Adjusted.set,
                    NewQuery("adjusted", formatBool(in.Adjusted.v)))
        \o appendIf(in.ExtendedHours.set,
                    NewQuery("extended_hours", formatBool(in.ExtendedHours.v)))
        \o appendIf(in.Month.set, NewQuery("month", in.Month.v))
        \o appendIf(in.OutputSize.set, NewQuery("outputsize", in.OutputSize.v))

SymbolPool ==
    {symEmpty, symSpaces, symAAPL, symPadded, symBRKA, symTen, symTenPadded,
     symEleven, symLong, symBang, symInner, symLongBang, symTabbed, symNbsp,
     symAccents, symAccent, sMSFT}

IntervalPool ==
    {s1min, s5min, s15min, s30min, s60min, s2min, s1MIN, <<>>}

OutputSizePool ==
    {NilString, Ptr(sCompact), Ptr(sFull), Ptr(sMedium), Ptr(<<>>)}

MonthPool ==
    {NilString, Ptr(m202301), Ptr(m20231), Ptr(m202313), Ptr(mLetters),
     Ptr(mSlash), Ptr(mLong), Ptr(mAccent), Ptr(<<>>)}

\* the requests a caller can make
Inputs ==
    {IntradayPriceInput(sy, iv, mo, os) :
        sy \in SymbolPool, iv \in IntervalPool, mo \in MonthPool,
        os \in OutputSizePool}

(***************************************************************************)
(* State                                                                   *)
(***************************************************************************)
VARIABLES
    body,        \* the response body handed to the parser
    threshold,   \* threshold[r]: series length from which run r uses the pool
    run,         \* the run in progress
    pc,          \* position of the run
    resp,        \* the AlphaVantageResponse of IntradayPrices
    todo,        \* keys the range loop (sequential or dispatcher) has not reached
    processed,   \* processed.TimeSeries
    jobs,        \* channel jobs
    jobsClosed,  \* close(jobs) has happened
    results,     \* channel results
    errChan,     \* channel errChan, capacity 1
    wpc,         \* position of each worker goroutine
    wjob,        \* the job a worker holds
    dpc,         \* position of the job-sending goroutine
    decoded,     \* calls of processEntry made by the run
    norm,        \* norm[r]: what IntradayPrices + ProcessTimeSeries returned
    out,         \* out[r]: what the caller of the pipeline (Get) returned
    wrap,        \* wrap[r]: the messages Get and the request client wrapped
                 \* around out[r].err with %w, outermost first
    input,       \* the models.IntradayPriceInput of the Get call
    ctx,         \* its context: "live", "canceled" or "deadline"
    config,      \* alphaClient.config: whether APIKey and BaseURL are set
    requests,    \* requests handed to the HTTP client
    parses,      \* calls of parser.IntradayPrices
    other,       \* a second call of the pipeline that is in progress while
                 \* the scheduler runs this one: its locals
    queries,     \* the query parameters Get built for the request
    mu,          \* IntradayPriceStock.mu: the goroutine holding the write
                 \* lock and the goroutines holding the read lock
    Timeout,     \* alphaClient.config.Timeout, in seconds
    tool,        \* tool[g]: position of goroutine g in its call on the tool
    toolArg,     \* the argument of the SetTimeout call in progress
    deadline,    \* the timeout GetWithContext gave the request of the last
                 \* Get, "none" when the context of the caller was used
    httpConfig,  \* FastHTTPClient.config
    stats,       \* FastHTTPClient.stats
    do,          \* do[c]: the locals of the call of Do made by caller c
    doCtx,       \* doCtx[c]: the context caller c passed to Do
    clients,     \* AlphaVantageClientPool.clients: API key -> client
    made,        \* made[k]: clients created for API key k
    handed,      \* handed[k]: the clients GetClient returned for API key k
    getc         \* getc[c]: the locals of the GetClient call of goroutine c

\* one IntradayPriceStock shared by several goroutines
toolVars ==
    <<mu, Timeout, tool, toolArg, deadline>>

\* the state of the request and client packages
\* one FastHTTPClient shared by the callers of Do
doVars ==
    <<httpConfig, stats, do, doCtx>>

\* one AlphaVantageClientPool shared by the callers of GetClient
registryVars ==
    <<clients, made, handed, getc>>

clientVars ==
    <<toolVars, doVars, registryVars>>

\* the state of one call of the pipeline
callVars ==
    <<body, threshold, run, pc, resp, todo, processed, jobs, jobsClosed,
      results, errChan, wpc, wjob, dpc, decoded, norm, out, wrap, input, ctx,
      config, requests, parses, other, queries>>

vars ==
    <<callVars, clientVars>>

\* the request side of Get, which the parser never touches
getVars ==
    <<input, ctx, config, requests>>

poolVars ==
    <<jobs, jobsClosed, results, errChan, wpc, wjob, dpc>>

NoJob ==
    <<>>

\* a call result: done, the error, and the output (zero on failure)
Pending ==
    [done |-> FALSE, err |-> NoErr, MetaData |-> ZeroMetaData, TimeSeries |-> <<>>]

Failed(e) ==
    [done |-> TRUE, err |-> e, MetaData |-> ZeroMetaData, TimeSeries |-> <<>>]

Returned(md, ts) ==
    [done |-> TRUE, err |-> NoErr, MetaData |-> md, TimeSeries |-> ts]

\* no second call is in progress
NoCall ==
    [pc |-> "none"]

(***************************************************************************)
(* IntradayPriceStock shared by goroutines: GetStats, Close, SetTimeout    *)
(* (outputs.go 352-371) and Get, whose request reads the timeout in        *)
(* RequestAlpha.GetWithContext                                             *)
(***************************************************************************)
Goroutines ==
    {"stats", "close", "timeout", "get"}

\* the timeouts SetTimeout is called with, in seconds
Timeouts ==
    {30, 31, 32}

Unlocked ==
    [writer |-> "none", readers |-> {}]

\* NewIntradayPriceStock: Timeout: 30 * time.Second
InitTool ==
    /\ mu = Unlocked
    /\ Timeout = 30
    /\ tool = [g \in Goroutines |-> "idle"]
    /\ toolArg = 30
    /\ deadline = "none"

\* s.mu.Lock() returns
Lock(g) ==
    /\ mu = Unlocked
    /\ mu' = [mu EXCEPT !.writer = g]

\* s.mu.Unlock()
Unlock(g) ==
    /\ mu.writer = g
    /\ mu' = [mu EXCEPT !.writer = "none"]

\* s.mu.RLock() returns
RLock(g) ==
    /\ mu.writer = "none"
    /\ mu' = [mu EXCEPT !.readers = @ \cup {g}]

\* s.mu.RUnlock()
RUnlock(g) ==
    /\ g \in mu.readers
    /\ mu' = [mu EXCEPT !.readers = @ \ {g}]

\* GetStats, line 354
GetStatsRLock ==
    /\ tool["stats"] = "idle"
    /\ RLock("stats")
    /\ tool' = [tool EXCEPT !["stats"] = "held"]
    /\ UNCHANGED <<Timeout, toolArg, deadline, doVars, registryVars, callVars>>

\* GetStats, lines 355-356: the stats are read and the deferred RUnlock runs
GetStatsReturn ==
    /\ tool["stats"] = "held"
    /\ RUnlock("stats")
    /\ tool' = [tool EXCEPT !["stats"] = "idle"]
    /\ UNCHANGED <<Timeout, toolArg, deadline, doVars, registryVars, callVars>>

\* Close, line 361
CloseLock ==
    /\ tool["close"] = "idle"
    /\ Lock("close")
    /\ tool' = [tool EXCEPT !["close"] = "held"]
    /\ UNCHANGED <<Timeout, toolArg, deadline, doVars, registryVars, callVars>>

\* Close, lines 362-363
CloseReturn ==
    /\ tool["close"] = "held"
    /\ Unlock("close")
    /\ tool' = [tool EXCEPT !["close"] = "idle"]
    /\ UNCHANGED <<Timeout, toolArg, deadline, doVars, registryVars, callVars>>

\* SetTimeout, line 368
SetTimeoutLock ==
    /\ tool["timeout"] = "idle"
    /\ Lock("timeout")
    /\ \E t \in Timeouts : toolArg' = t
    /\ tool' = [tool EXCEPT !["timeout"] = "write"]
    /\ UNCHANGED <<Timeout, deadline, doVars, registryVars, callVars>>

\* SetTimeout, line 370: AlphaVantageClient.SetTimeout assigns
\* ac.config.Timeout
SetTimeoutWrite ==
    /\ tool["timeout"] = "write"
    /\ Timeout' = toolArg
    /\ tool' = [tool EXCEPT !["timeout"] = "unlock"]
    /\ UNCHANGED <<mu, toolArg, deadline, doVars, registryVars, callVars>>

\* SetTimeout, the deferred Unlock of line 369
SetTimeoutReturn ==
    /\ tool["timeout"] = "unlock"
    /\ Unlock("timeout")
    /\ tool' = [tool EXCEPT !["timeout"] = "idle"]
    /\ UNCHANGED <<Timeout, toolArg, deadline, doVars, registryVars, callVars>>

\* Get up to GetWithContext, line 604: no lock is taken; the timeout is
\* read only when the caller passed context.Background()
ToolGet ==
    /\ tool["get"] = "idle"
    /\ \E c \in {"background", "request"} :
           tool' = [tool EXCEPT !["get"] =
                       IF c = "background" THEN "read" ELSE "sent"]
    /\ deadline' = "none"
    /\ UNCHANGED <<mu, Timeout, toolArg, doVars, registryVars, callVars>>

\* GetWithContext, line 606: context.WithTimeout(ctx,
\* ra.client.config.Timeout); a read that runs together with the write of
\* SetTimeout yields the old or the new value
GetReadTimeout ==
    /\ tool["get"] = "read"
    /\ deadline' \in IF tool["timeout"] = "write"
                     THEN {Timeout, toolArg}
                     ELSE {Timeout}
    /\ tool' = [tool EXCEPT !["get"] = "sent"]
    /\ UNCHANGED <<mu, Timeout, toolArg, doVars, registryVars, callVars>>

\* Get returns
ToolGetReturn ==
    /\ tool["get"] = "sent"
    /\ tool' = [tool EXCEPT !["get"] = "idle"]
    /\ UNCHANGED <<mu, Timeout, toolArg, deadline, doVars, registryVars, callVars>>

(***************************************************************************)
(* FastHTTPClient.Do (client.go 170-211), performRequest (214-265) and     *)
(* shouldNotRetry (331-351)                                                *)
(***************************************************************************)
NumCallers ==
    2

Callers ==
    1..NumCallers

\* an error value: nil, or an error with the text of Error()
nilError ==
    [nil |-> TRUE, text |-> <<>>]

NewError(text) ==
    [nil |-> FALSE, text |-> text]

\* fmt.Errorf(prefix + ": %w", err)
Errorf(prefix, err) ==
    NewError(prefix \o <<":", " ">> \o err.text)

\* ctx.Err() of a context that is done
doCtxErr(kind) ==
    IF kind = "canceled"
    THEN NewError(<<"c", "o", "n", "t", "e", "x", "t", " ", "c", "a", "n",
                    "c", "e", "l", "e", "d">>)
    ELSE NewError(<<"c", "o", "n", "t", "e", "x", "t", " ", "d", "e", "a",
                    "d", "l", "i", "n", "e", " ", "e", "x", "c", "e", "e",
                    "d", "e", "d">>)

\* errors of fasthttp's DoTimeout
errTimeout ==
    NewError(<<"t", "i", "m", "e", "o", "u", "t">>)

errInvalidHost ==
    NewError(<<"I", "n", "v", "a", "l", "i", "d", " ", "h", "o", "s", "t">>)

TransportErrors ==
    {errTimeout, errInvalidHost}

sHTTPRequestFailed ==
    <<"H", "T", "T", "P", " ", "r", "e", "q", "u", "e", "s", "t", " ", "f",
      "a", "i", "l", "e", "d">>

\* lines 334-342
nonRetryableErrors ==
    <<<<"r", "a", "t", "e", " ", "l", "i", "m", "i", "t">>,
      <<"a", "u", "t", "h", "e", "n", "t", "i", "c", "a", "t", "i", "o", "n">>,
      <<"a", "u", "t", "h", "o", "r", "i", "z", "a", "t", "i", "o", "n">>,
      <<"i", "n", "v", "a", "l", "i", "d">>,
      <<"b", "a", "d", " ", "r", "e", "q", "u", "e", "s", "t">>,
      <<"n", "o", "t", " ", "f", "o", "u", "n", "d">>,
      <<"f", "o", "r", "b", "i", "d", "d", "e", "n">>>>

\* lines 331-351
shouldNotRetry(err) ==
    \E i \in 1..Len(nonRetryableErrors) :
        Contains(ToLower(err.text), nonRetryableErrors[i])

\* MaxRetries of the configurations: a negative value, none, one, and the 2
\* of DefaultConfig (line 105)
DefaultConfig ==
    [MaxRetries |-> 2]

HTTPConfigs ==
    {[MaxRetries |-> n] : n \in -1..2}

NoCallOfDo ==
    [pc |-> "idle", attempt |-> 0, err |-> nilError, lastErr |-> nilError,
     sel |-> "none", tried |-> 0, ret |-> [response |-> FALSE, err |-> nilError]]

LiveContext ==
    [err |-> "none", during |-> "none", attempts |-> 0]

\* NewFastHTTPClient
InitHTTP(configs) ==
    /\ httpConfig \in configs
    /\ stats = [totalRequests |-> 0, successfulRequests |-> 0,
                failedRequests |-> 0]
    /\ do = [c \in Callers |-> NoCallOfDo]
    /\ doCtx = [c \in Callers |-> LiveContext]

\* the loop test of line 179 with the given counter: the next attempt starts
\* (tried counts the calls of performRequest) or the loop ends
LoopTest(c, attempt, locals) ==
    IF attempt <= httpConfig.MaxRetries
    THEN [locals EXCEPT !.pc = "perform", !.attempt = attempt,
                        !.tried = @ + 1]
    ELSE [locals EXCEPT !.pc = "exhausted", !.attempt = attempt]

\* lines 171-179: the call is counted and the loop is entered
DoStart(c) ==
    /\ do[c].pc = "idle"
    /\ stats' = [stats EXCEPT !.totalRequests = @ + 1]
    /\ do' = [do EXCEPT ![c] = LoopTest(c, 0, do[c])]
    /\ UNCHANGED <<httpConfig, doCtx, toolVars, registryVars, callVars>>

\* performRequest: DoTimeout fails (249-251), or the context is done
\* (253-257), or the response is returned (264)
performRequest(c) ==
    {Errorf(sHTTPRequestFailed, e) : e \in TransportErrors}
        \cup IF doCtx[c].err # "none"
             THEN {doCtxErr(doCtx[c].err)}
             ELSE {nilError}

\* line 180: one attempt
PerformRequest(c) ==
    /\ do[c].pc = "perform"
    /\ \E err \in performRequest(c) :
           do' = [do EXCEPT ![c].pc = "returned", ![c].err = err]
    /\ UNCHANGED <<httpConfig, stats, doCtx, toolVars, registryVars, callVars>>

\* lines 181-189: the attempt succeeded
DoSuccess(c) ==
    /\ do[c].pc = "returned"
    /\ do[c].err.nil
    /\ stats' = [stats EXCEPT !.successfulRequests = @ + 1]
    /\ do' = [do EXCEPT ![c].pc = "done",
                        ![c].ret = [response |-> TRUE, err |-> nilError]]
    /\ UNCHANGED <<httpConfig, doCtx, toolVars, registryVars, callVars>>

\* variant: the loop goes on after an error that is not to be retried
DoClassify_NoBreak(c) ==
    /\ do[c].pc = "returned"
    /\ ~do[c].err.nil
    /\ do' = [do EXCEPT ![c] =
                 IF do[c].attempt < httpConfig.MaxRetries
                 THEN [do[c] EXCEPT !.pc = "select", !.lastErr = do[c].err,
                                    !.sel = IF doCtx[c].err # "none"
                                            THEN "done" ELSE "parked"]
                 ELSE LoopTest(c, do[c].attempt + 1,
                               [do[c] EXCEPT !.lastErr = do[c].err])]
    /\ UNCHANGED <<httpConfig, stats, doCtx, toolVars, registryVars, callVars>>

\* lines 191-198: the attempt failed; break, or enter the select (a context
\* that is done already is ready, the timer is not), or go round the loop
DoClassify(c) ==
    /\ do[c].pc = "returned"
    /\ ~do[c].err.nil
    /\ do' = [do EXCEPT ![c] =
                 IF shouldNotRetry(do[c].err)
                 THEN [do[c] EXCEPT !.pc = "exhausted", !.lastErr = do[c].err]
                 ELSE IF do[c].attempt < httpConfig.MaxRetries
                 THEN [do[c] EXCEPT !.pc = "select", !.lastErr = do[c].err,
                                    !.sel = IF doCtx[c].err # "none"
                                            THEN "done" ELSE "parked"]
                 ELSE LoopTest(c, do[c].attempt + 1,
                               [do[c] EXCEPT !.lastErr = do[c].err])]
    /\ UNCHANGED <<httpConfig, stats, doCtx, toolVars, registryVars, callVars>>

\* line 199: time.After(RetryDelay) fires while Do is parked in the select
TimerFires(c) ==
    /\ do[c].pc = "select"
    /\ do[c].sel = "parked"
    /\ do' = [do EXCEPT ![c].sel = "timer"]
    /\ UNCHANGED <<httpConfig, stats, doCtx, toolVars, registryVars, callVars>>

\* the caller's context is cancelled; a Do that is parked in the select is
\* woken by ctx.Done(), and the context then remembers that it ended during
\* the retry delay and how many attempts had been made
Cancel(c) ==
    /\ doCtx[c].err = "none"
    /\ do[c].pc # "done"
    /\ doCtx' = [doCtx EXCEPT ![c] =
                    IF do[c].pc = "select" /\ do[c].sel = "parked"
                    THEN [err |-> "canceled", during |-> "delay",
                          attempts |-> do[c].tried]
                    ELSE [err |-> "canceled", during |-> "other",
                          attempts |-> 0]]
    /\ do' = [do EXCEPT ![c].sel =
                 IF do[c].pc = "select" /\ do[c].sel = "parked"
                 THEN "done" ELSE @]
    /\ UNCHANGED <<httpConfig, stats, toolVars, registryVars, callVars>>

\* variant: the wait ends with the next attempt whichever case was taken
SelectResume_IgnoresDone(c) ==
    /\ do[c].pc = "select"
    /\ do[c].sel \in {"timer", "done"}
    /\ do' = [do EXCEPT ![c] =
                 LoopTest(c, do[c].attempt + 1, [do[c] EXCEPT !.sel = "none"])]
    /\ UNCHANGED <<httpConfig, stats, doCtx, toolVars, registryVars, callVars>>

\* lines 198-203: the select returns; after the timer the loop goes on,
\* after ctx.Done() Do returns ctx.Err()
SelectResume(c) ==
    /\ do[c].pc = "select"
    /\ do[c].sel \in {"timer", "done"}
    /\ do' = [do EXCEPT ![c] =
                 IF do[c].sel = "timer"
                 THEN LoopTest(c, do[c].attempt + 1,
                               [do[c] EXCEPT !.sel = "none"])
                 ELSE [do[c] EXCEPT
                          !.pc = "done", !.sel = "none",
                          !.ret = [response |-> FALSE,
                                   err |-> doCtxErr(doCtx[c].err)]]]
    /\ UNCHANGED <<httpConfig, stats, doCtx, toolVars, registryVars, callVars>>

\* %d of a small number
FormatInt(n) ==
    <<SubSeq(<<"0", "1", "2", "3", "4", "5", "6", "7", "8", "9">>,
             n + 1, n + 1)[1]>>

\* line 210: fmt.Errorf("failed after %d attempts: %w", MaxRetries+1,
\* lastErr); %w of a nil error prints %!w(<nil>)
failedAfter(lastErr) ==
    NewError(<<"f", "a", "i", "l", "e", "d", " ", "a", "f", "t", "e", "r", " ">>
             \o FormatInt(httpConfig.MaxRetries + 1)
             \o <<" ", "a", "t", "t", "e", "m", "p", "t", "s", ":", " ">>
             \o IF lastErr.nil
                THEN <<"%", "!", "w", "(", "<", "n", "i", "l", ">", ")">>
                ELSE lastErr.text)

\* lines 206-210: the loop ended without a response
DoFail(c) ==
    /\ do[c].pc = "exhausted"
    /\ stats' = [stats EXCEPT !.failedRequests = @ + 1]
    /\ do' = [do EXCEPT ![c].pc = "done",
                        ![c].ret = [response |-> FALSE,
                                    err |-> failedAfter(do[c].lastErr)]]
    /\ UNCHANGED <<httpConfig, doCtx, toolVars, registryVars, callVars>>

(***************************************************************************)
(* AlphaVantageClientPool.GetClient (part_004 679-716)                     *)
(***************************************************************************)
APIKeys ==
    {"key-a", "key-b"}

\* the n-th client created for an API key
NewAlphaVantageClient(key, n) ==
    [APIKey |-> key, instance |-> n]

NoClient ==
    [APIKey |-> "", instance |-> 0]

\* NewAlphaVantageClientPool, lines 686-695: an empty map
InitRegistry ==
    /\ clients = <<>>
    /\ made = [k \in APIKeys |-> 0]
    /\ handed = [k \in APIKeys |-> {}]
    /\ getc = [c \in Callers |-> [pc |-> "idle", apiKey |-> "", client |-> NoClient]]

\* lines 699-701: the lookup; the client found is returned
GetClientLookup(c) ==
    /\ getc[c].pc = "idle"
    /\ \E k \in APIKeys :
           IF k \in DOMAIN clients
           THEN /\ handed' = [handed EXCEPT ![k] = @ \cup {clients[k]}]
                /\ getc' = [getc EXCEPT ![c].apiKey = k,
                                        ![c].client = clients[k]]
           ELSE /\ getc' = [getc EXCEPT ![c].pc = "create", ![c].apiKey = k]
                /\ UNCHANGED handed
    /\ UNCHANGED <<clients, made, toolVars, doVars, callVars>>

\* lines 703-712: the configuration is copied and a client is built
GetClientCreate(c) ==
    /\ getc[c].pc = "create"
    /\ made' = [made EXCEPT ![getc[c].apiKey] = @ + 1]
    /\ getc' = [getc EXCEPT
                   ![c].pc = "store",
                   ![c].client = NewAlphaVantageClient(getc[c].apiKey,
                                                       made[getc[c].apiKey] + 1)]
    /\ UNCHANGED <<clients, handed, toolVars, doVars, callVars>>

\* another goroutine is about to write the map as well
WritesTogether(c) ==
    \E d \in Callers \ {c} : getc[d].pc = "store"

\* lines 714-715: the client is stored and returned; with two unsynchronized
\* writes of the map in progress the runtime may also stop the program
\* ("fatal error: concurrent map writes")
GetClientStore(c) ==
    /\ getc[c].pc = "store"
    /\ \/ /\ clients' = (getc[c].apiKey :> getc[c].client) @@ clients
          /\ handed' = [handed EXCEPT ![getc[c].apiKey] = @ \cup {getc[c].client}]
          /\ getc' = [getc EXCEPT ![c].pc = "idle"]
       \/ /\ WritesTogether(c)
          /\ getc' = [d \in Callers |-> [getc[d] EXCEPT !.pc = "fatal"]]
          /\ UNCHANGED <<clients, handed>>
    /\ UNCHANGED <<made, toolVars, doVars, callVars>>

\* the client side at the start of a call of the pipeline
InitClient ==
    /\ InitTool
    /\ InitHTTP({DefaultConfig})
    /\ InitRegistry

InitWith(th) ==
    /\ body \in Bodies
    /\ threshold = th
    /\ run = 1
    /\ pc = "parse"
    /\ resp = NilResponse
    /\ todo = {}
    /\ processed = <<>>
    /\ jobs = <<>>
    /\ jobsClosed = FALSE
    /\ results = <<>>
    /\ errChan = <<>>
    /\ wpc = [w \in Workers |-> "idle"]
    /\ wjob = [w \in Workers |-> NoJob]
    /\ dpc = "idle"
    /\ decoded = 0
    /\ norm = [r \in Runs |-> Pending]
    /\ out = [r \in Runs |-> Pending]
    /\ wrap = [r \in Runs |-> <<>>]
    /\ input = IntradayPriceInput(RequestSymbol, s1min, NilString, NilString)
    /\ ctx = "live"
    /\ config = [APIKey |-> TRUE, BaseURL |-> TRUE]
    /\ requests = 1
    /\ parses = 0
    /\ other = NoCall
    /\ queries = <<>>
    /\ InitClient

\* both runs choose the path as the source does
Init ==
    InitWith([r \in Runs |-> ParallelThreshold])

(***************************************************************************)
(* Get, lines 277-311: validation, the cancellation checks and the fetch   *)
(* through RequestAlpha.GetWithContext                                     *)
(***************************************************************************)
\* no response has arrived yet
NoBody ==
    [t |-> "none", v |-> <<>>]

\* ctx.Err()
ctxErr(c) ==
    IF c = "canceled" THEN Err("context canceled", <<>>)
    ELSE Err("context deadline exceeded", <<>>)

\* every string token of a document: its keys and its string values
RECURSIVE Strings(_)
Strings(j) ==
    IF j.t = "string" THEN {j.v}
    ELSE IF j.t = "object"
    THEN DOMAIN j.v \cup UNION {Strings(j.v[k]) : k \in DOMAIN j.v}
    ELSE {}

\* bytes.Contains(body, pattern) for a pattern of letters and spaces, which
\* can only match inside one string token of the document
bytesContains(j, pattern) ==
    \E t \in Strings(j) : Contains(t, pattern)

\* the table of checkAPIError: pattern and message
errorPatterns ==
    <<
      [pattern |->
          <<"I", "n", "v", "a", "l", "i", "d", " ", "A", "P", "I", " ",
            "c", "a", "l", "l">>,
       message |->
          <<"I", "n", "v", "a", "l", "i", "d", " ", "A", "P", "I", " ",
            "f", "u", "n", "c", "t", "i", "o", "n", " ", "o", "r", " ",
            "p", "a", "r", "a", "m", "e", "t", "e", "r", "s">>],
      [pattern |->
          <<"t", "h", "e", " ", "p", "a", "r", "a", "m", "e", "t", "e",
            "r", " ", "a", "p", "i", "k", "e", "y", " ", "i", "s", " ",
            "i", "n", "v", "a", "l", "i", "d">>,
       message |->
          <<"I", "n", "v", "a", "l", "i", "d", " ", "A", "P", "I", " ",
            "k", "e", "y">>],
      [pattern |->
          <<"h", "i", "g", "h", "e", "r", " ", "A", "P", "I", " ", "c",
            "a", "l", "l", " ", "f", "r", "e", "q", "u", "e", "n", "c",
            "y">>,
       message |->
          <<"A", "P", "I", " ", "c", "a", "l", "l", " ", "f", "r", "e",
            "q", "u", "e", "n", "c", "y", " ", "l", "i", "m", "i", "t",
            " ", "r", "e", "a", "c", "h", "e", "d">>],
      [pattern |->
          <<"T", "h", "a", "n", "k", " ", "y", "o", "u", " ", "f", "o",
            "r", " ", "u", "s", "i", "n", "g", " ", "A", "l", "p", "h",
            "a", " ", "V", "a", "n", "t", "a", "g", "e">>,
       message |->
          <<"A", "P", "I", " ", "l", "i", "m", "i", "t", " ", "r", "e",
            "a", "c", "h", "e", "d", " ", "-", " ", "p", "r", "e", "m",
            "i", "u", "m", " ", "k", "e", "y", " ", "r", "e", "q", "u",
            "i", "r", "e", "d">>],
      [pattern |->
          <<"E", "r", "r", "o", "r", " ", "M", "e", "s", "s", "a", "g",
            "e">>,
       message |->
          <<"A", "P", "I", " ", "r", "e", "t", "u", "r", "n", "e", "d",
            " ", "a", "n", " ", "e", "r", "r", "o", "r">>]
    >>

\* the entry of the table that the loop of checkAPIError stops at
firstPattern(b) ==
    CHOOSE i \in 1..Len(errorPatterns) :
        /\ bytesContains(b, errorPatterns[i].pattern)
        /\ \A j \in 1..(i - 1) : ~bytesContains(b, errorPatterns[j].pattern)

\* RequestAlpha.checkAPIError: the error carries the message of the table,
\* not the text of the response
checkAPIError(b) ==
    IF \E i \in 1..Len(errorPatterns) : bytesContains(b, errorPatterns[i].pattern)
    THEN Err("API error", errorPatterns[firstPattern(b)].message)
    ELSE NoErr

\* the wrappers of an error that GetWithContext returned to Get
fetchWrap(inner) ==
    <<"failed to fetch intraday data for symbol">> \o inner

\* variant: the context is looked at before the input
ValidateInput_ContextFirst ==
    /\ pc = "input"
    /\ \E e \in {validateInput(input)} :
          IF ctx # "live"
          THEN /\ out' = [out EXCEPT ![run] = Failed(ctxErr(ctx))]
               /\ pc' = "done"
               /\ UNCHANGED wrap
          ELSE IF e # NoErr
          THEN /\ out' = [out EXCEPT ![run] = Failed(e)]
               /\ wrap' = [wrap EXCEPT ![run] = <<"input validation failed">>]
               /\ pc' = "done"
          ELSE /\ pc' = "ctx1"
               /\ UNCHANGED <<out, wrap>>
    /\ UNCHANGED <<body, threshold, run, resp, todo, processed, poolVars,
                   decoded, norm, getVars, parses>>
    /\ UNCHANGED <<other, queries, clientVars>>

\* line 279: validateInput, and the wrapped return on failure
ValidateInput ==
    /\ pc = "input"
    /\ \E e \in {validateInput(input)} :
          IF e # NoErr
          THEN /\ out' = [out EXCEPT ![run] = Failed(e)]
               /\ wrap' = [wrap EXCEPT ![run] = <<"input validation failed">>]
               /\ pc' = "done"
          ELSE /\ pc' = "ctx1"
               /\ UNCHANGED <<out, wrap>>
    /\ UNCHANGED <<body, threshold, run, resp, todo, processed, poolVars,
                   decoded, norm, getVars, parses>>
    /\ UNCHANGED <<other, queries, clientVars>>

\* the caller cancels the context or its deadline passes; after the second
\* check Get never looks at the context again
CtxDone ==
    /\ ctx = "live"
    /\ pc \in {"input", "ctx1", "fetch", "wait", "ctx2"}
    /\ ctx' \in {"canceled", "deadline"}
    /\ UNCHANGED <<body, threshold, run, pc, resp, todo, processed, poolVars,
                   decoded, norm, out, wrap, input, config, requests, parses>>
    /\ UNCHANGED <<other, queries, clientVars>>

\* lines 284-288: the select on ctx.Done() before the request is built
CheckContext ==
    /\ pc = "ctx1"
    /\ IF ctx # "live"
       THEN /\ out' = [out EXCEPT ![run] = Failed(ctxErr(ctx))]
            /\ pc' = "done"
       ELSE /\ pc' = "fetch"
            /\ UNCHANGED out
    /\ UNCHANGED <<body, threshold, run, resp, todo, processed, poolVars,
                   decoded, norm, wrap, getVars, parses>>
    /\ UNCHANGED <<other, queries, clientVars>>

\* GetWithContext up to httpClient.Get: buildURL fails without a request
\* when the API key or the base URL is missing
FetchStart ==
    /\ pc = "fetch"
    /\ IF ~config.APIKey \/ ~config.BaseURL
       THEN /\ out' = [out EXCEPT ![run] =
                          Failed(IF ~config.APIKey
                                 THEN Err("api key is required", <<>>)
                                 ELSE Err("base URL is required", <<>>))]
            /\ wrap' = [wrap EXCEPT ![run] = fetchWrap(<<"failed to build URL">>)]
            /\ pc' = "done"
            /\ UNCHANGED requests
       ELSE /\ requests' = requests + 1
            /\ pc' = "wait"
            /\ UNCHANGED <<out, wrap>>
    /\ UNCHANGED <<body, threshold, run, resp, todo, processed, poolVars,
                   decoded, norm, input, ctx, config, parses>>
    /\ queries' = buildQueries(input)
    /\ UNCHANGED <<other, clientVars>>

\* the outcomes of httpClient.Get and of the status and pattern checks that
\* follow it: an error of the client (which is ctx.Err() when the context
\* ended while the client waited), a status other than 200, or a body
fetchOutcomes ==
    {[err |-> Err("failed after attempts", <<>>),
      wrap |-> fetchWrap(<<"failed to perform HTTP request">>), body |-> NoBody]}
    \cup
    {[err |-> ctxErr(ctx),
      wrap |-> fetchWrap(<<"failed to perform HTTP request">>), body |-> NoBody]
        : c \in {ctx} \ {"live"}}
    \cup
    {[err |-> Err(k, <<>>), wrap |-> fetchWrap(<<>>), body |-> NoBody]
        : k \in {"API rate limit exceeded", "invalid API key",
                  "access forbidden - check API permissions",
                  "unexpected status code"}}
    \cup
    {[err |-> checkAPIError(b), wrap |-> fetchWrap(<<>>), body |-> b]
        : b \in Bodies}

\* lines 616-638 of GetWithContext and lines 302-304 of Get; body is
\* response.Body, which checkAPIError reads also when Get receives no bytes
FetchReturn ==
    /\ pc = "wait"
    /\ \E o \in fetchOutcomes :
          /\ body' = o.body
          /\ IF o.err # NoErr
             THEN /\ out' = [out EXCEPT ![run] = Failed(o.err)]
                  /\ wrap' = [wrap EXCEPT ![run] = o.wrap]
                  /\ pc' = "done"
             ELSE /\ pc' = "ctx2"
                  /\ UNCHANGED <<out, wrap>>
    /\ UNCHANGED <<threshold, run, resp, todo, processed, poolVars, decoded,
                   norm, getVars, parses>>
    /\ UNCHANGED <<other, queries, clientVars>>

\* variant: no second look at the context
CheckContextAgain_Skipped ==
    /\ pc = "ctx2"
    /\ pc' = "parse"
    /\ UNCHANGED <<body, threshold, run, resp, todo, processed, poolVars,
                   decoded, norm, out, wrap, getVars, parses>>
    /\ UNCHANGED <<other, queries, clientVars>>

\* lines 307-311: the select on ctx.Done() before the payload is parsed
CheckContextAgain ==
    /\ pc = "ctx2"
    /\ IF ctx # "live"
       THEN /\ out' = [out EXCEPT ![run] = Failed(ctxErr(ctx))]
            /\ pc' = "done"
       ELSE /\ pc' = "parse"
            /\ UNCHANGED out
    /\ UNCHANGED <<body, threshold, run, resp, todo, processed, poolVars,
                   decoded, norm, wrap, getVars, parses>>
    /\ UNCHANGED <<other, queries, clientVars>>

(***************************************************************************)
(* Get, lines 313-317: rawData, err := parser.IntradayPrices(res)          *)
(***************************************************************************)
Parse ==
    /\ pc = "parse"
    /\ \E o \in IntradayPrices(body) :
          IF o.err # NoErr
          THEN /\ norm' = [norm EXCEPT ![run] = Failed(o.err)]
               /\ out' = [out EXCEPT ![run] = Failed(o.err)]
               /\ wrap' = [wrap EXCEPT ![run] =
                              <<"failed to parse intraday data for symbol">>]
               /\ pc' = "done"
               /\ UNCHANGED resp
          ELSE /\ resp' = o.resp
               /\ pc' = "process"
               /\ UNCHANGED <<norm, out, wrap>>
    /\ parses' = parses + 1
    /\ UNCHANGED <<body, threshold, run, todo, processed, poolVars, decoded>>
    /\ UNCHANGED getVars
    /\ UNCHANGED <<other, queries, clientVars>>

(***************************************************************************)
(* ProcessTimeSeries                                                       *)
(***************************************************************************)
\* lines 171-185 and 196-232: the nil check, the choice of the path, and
\* for the pool the channels, the workers and the job sender
ProcessStart ==
    /\ pc = "process"
    /\ processed' = <<>>
    /\ decoded' = 0
    /\ IF resp.nilSeries
       THEN /\ norm' = [norm EXCEPT ![run] = Returned(resp.MetaData, <<>>)]
            /\ pc' = "validate"
            /\ UNCHANGED <<todo, poolVars>>
       ELSE IF Cardinality(DOMAIN resp.TimeSeries) < threshold[run]
       THEN /\ pc' = "seq"
            /\ todo' = DOMAIN resp.TimeSeries
            /\ UNCHANGED <<norm, poolVars>>
       ELSE /\ pc' = "pool"
            /\ todo' = DOMAIN resp.TimeSeries
            /\ jobs' = <<>>
            /\ jobsClosed' = FALSE
            /\ results' = <<>>
            /\ errChan' = <<>>
            /\ wpc' = [w \in Workers |-> "recv"]
            /\ wjob' = [w \in Workers |-> NoJob]
            /\ dpc' = "send"
            /\ UNCHANGED norm
    /\ UNCHANGED <<body, threshold, run, resp, out, wrap, getVars, parses>>
    /\ UNCHANGED <<other, queries, clientVars>>

\* lines 187-193: one iteration of the sequential loop
SeqStep ==
    /\ pc = "seq"
    /\ \E k \in todo :
          \E e \in {processEntry(k, resp.TimeSeries[k])} :
              /\ decoded' = decoded + 1
              /\ IF e.err # NoErr
                 THEN /\ norm' = [norm EXCEPT ![run] = Failed(e.err)]
                      /\ out' = [out EXCEPT ![run] = Failed(e.err)]
                      /\ wrap' = [wrap EXCEPT ![run] =
                             <<"failed to process time series data for symbol">>]
                      /\ pc' = "done"
                      /\ UNCHANGED <<todo, processed>>
                 ELSE /\ processed' = Append(processed, e.rec)
                      /\ todo' = todo \ {k}
                      /\ UNCHANGED <<norm, out, wrap, pc>>
    /\ UNCHANGED <<body, threshold, run, resp, poolVars, getVars, parses>>
    /\ UNCHANGED <<other, queries, clientVars>>

\* lines 250-255 after the sequential loop: sort and return
SeqReturn ==
    /\ pc = "seq"
    /\ todo = {}
    /\ \E q \in SortByTimestamp(processed) :
          /\ processed' = q
          /\ norm' = [norm EXCEPT ![run] = Returned(resp.MetaData, q)]
    /\ pc' = "validate"
    /\ UNCHANGED <<body, threshold, run, resp, todo, poolVars, decoded, out,
                   wrap, getVars, parses>>
    /\ UNCHANGED <<other, queries, clientVars>>

\* lines 228-230: the job sender puts one entry on the jobs channel
\* (capacity len(r.TimeSeries): the send never blocks)
DispatchSend ==
    /\ dpc = "send"
    /\ \E k \in todo :
          /\ jobs' = Append(jobs, k)
          /\ todo' = todo \ {k}
    /\ UNCHANGED <<body, threshold, run, pc, resp, processed, jobsClosed,
                   results, errChan, wpc, wjob, dpc, decoded, norm, out>>
    /\ UNCHANGED <<wrap, getVars, parses>>
    /\ UNCHANGED <<other, queries, clientVars>>

\* variant: the job sender ends without close(jobs)
DispatchClose_NoClose ==
    /\ dpc = "send"
    /\ todo = {}
    /\ dpc' = "done"
    /\ UNCHANGED <<body, threshold, run, pc, resp, todo, processed, jobs,
                   jobsClosed, results, errChan, wpc, wjob, decoded, norm, out>>
    /\ UNCHANGED <<wrap, getVars, parses>>
    /\ UNCHANGED <<other, queries, clientVars>>

\* line 231: close(jobs), the job sender ends
DispatchClose ==
    /\ dpc = "send"
    /\ todo = {}
    /\ jobsClosed' = TRUE
    /\ dpc' = "done"
    /\ UNCHANGED <<body, threshold, run, pc, resp, todo, processed, jobs,
                   results, errChan, wpc, wjob, decoded, norm, out>>
    /\ UNCHANGED <<wrap, getVars, parses>>
    /\ UNCHANGED <<other, queries, clientVars>>

\* line 212: a worker receives a job
WorkerRecv(w) ==
    /\ wpc[w] = "recv"
    /\ jobs # <<>>
    /\ wjob' = [wjob EXCEPT ![w] = Head(jobs)]
    /\ jobs' = Tail(jobs)
    /\ wpc' = [wpc EXCEPT ![w] = "work"]
    /\ UNCHANGED <<body, threshold, run, pc, resp, todo, processed, jobsClosed,
                   results, errChan, dpc, decoded, norm, out>>
    /\ UNCHANGED <<wrap, getVars, parses>>
    /\ UNCHANGED <<other, queries, clientVars>>

\* line 212 on the closed and drained channel: the loop ends, wg.Done()
WorkerExit(w) ==
    /\ wpc[w] = "recv"
    /\ jobs = <<>>
    /\ jobsClosed
    /\ wpc' = [wpc EXCEPT ![w] = "done"]
    /\ UNCHANGED <<body, threshold, run, pc, resp, todo, processed, jobs,
                   jobsClosed, results, errChan, wjob, dpc, decoded, norm, out>>
    /\ UNCHANGED <<wrap, getVars, parses>>
    /\ UNCHANGED <<other, queries, clientVars>>

\* variant: a decoded record is not sent to results
WorkerDecode_DropsRecord(w) ==
    /\ wpc[w] = "work"
    /\ \E e \in {processEntry(wjob[w], resp.TimeSeries[wjob[w]])} :
           IF e.err # NoErr
           THEN /\ errChan' = IF errChan = <<>> THEN <<e.err>> ELSE errChan
                /\ wpc' = [wpc EXCEPT ![w] = "done"]
           ELSE /\ wpc' = [wpc EXCEPT ![w] = "recv"]
                /\ UNCHANGED errChan
    /\ decoded' = decoded + 1
    /\ wjob' = [wjob EXCEPT ![w] = NoJob]
    /\ UNCHANGED <<body, threshold, run, pc, resp, todo, processed, jobs,
                   jobsClosed, results, dpc, norm, out>>
    /\ UNCHANGED <<wrap, getVars, parses>>
    /\ UNCHANGED <<other, queries, clientVars>>

\* lines 213-221: decode the job; on failure offer the error to errChan
\* without blocking and return, else send the record to results
WorkerDecode(w) ==
    /\ wpc[w] = "work"
    /\ \E e \in {processEntry(wjob[w], resp.TimeSeries[wjob[w]])} :
           IF e.err # NoErr
           THEN /\ errChan' = IF errChan = <<>> THEN <<e.err>> ELSE errChan
                /\ wpc' = [wpc EXCEPT ![w] = "done"]
                /\ UNCHANGED results
           ELSE /\ results' = Append(results, e.rec)
                /\ wpc' = [wpc EXCEPT ![w] = "recv"]
                /\ UNCHANGED errChan
    /\ decoded' = decoded + 1
    /\ wjob' = [wjob EXCEPT ![w] = NoJob]
    /\ UNCHANGED <<body, threshold, run, pc, resp, todo, processed, jobs,
                   jobsClosed, dpc, norm, out>>
    /\ UNCHANGED <<wrap, getVars, parses>>
    /\ UNCHANGED <<other, queries, clientVars>>

\* variant: the error channel is not consulted before the results are
\* collected
PoolReturn_IgnoreErrChan ==
    /\ pc = "pool"
    /\ \A w \in Workers : wpc[w] = "done"
    /\ \E q \in SortByTimestamp(processed \o results) :
          /\ processed' = q
          /\ norm' = [norm EXCEPT ![run] = Returned(resp.MetaData, q)]
    /\ results' = <<>>
    /\ pc' = "validate"
    /\ UNCHANGED <<errChan, out, wrap>>
    /\ UNCHANGED <<body, threshold, run, resp, todo, jobs, jobsClosed, wpc,
                   wjob, dpc, decoded, getVars, parses>>
    /\ UNCHANGED <<other, queries, clientVars>>

\* lines 235-255: wg.Wait() returns once every worker is done; the channels
\* are closed, a recorded error is returned, else the results are
\* collected, sorted and returned
PoolReturn ==
    /\ pc = "pool"
    /\ \A w \in Workers : wpc[w] = "done"
    /\ IF errChan # <<>>
       THEN /\ norm' = [norm EXCEPT ![run] = Failed(Head(errChan))]
            /\ out' = [out EXCEPT ![run] = Failed(Head(errChan))]
            /\ wrap' = [wrap EXCEPT ![run] =
                           <<"failed to process time series data for symbol">>]
            /\ errChan' = <<>>
            /\ pc' = "done"
            /\ UNCHANGED <<processed, results>>
       ELSE /\ \E q \in SortByTimestamp(processed \o results) :
                  /\ processed' = q
                  /\ norm' = [norm EXCEPT ![run] = Returned(resp.MetaData, q)]
            /\ results' = <<>>
            /\ pc' = "validate"
            /\ UNCHANGED <<errChan, out, wrap>>
    /\ UNCHANGED <<body, threshold, run, resp, todo, jobs, jobsClosed, wpc,
                   wjob, dpc, decoded, getVars, parses>>
    /\ UNCHANGED <<other, queries, clientVars>>

(***************************************************************************)
(* Get, lines 325-331: validateResponse and the return                     *)
(***************************************************************************)
Validate ==
    /\ pc = "validate"
    /\ LET data == norm[run]
           e    == validateResponse(data, input.Symbol)
       IN  out' = [out EXCEPT ![run] =
                      IF e # NoErr THEN Failed(e)
                      ELSE Returned(data.MetaData, data.TimeSeries)]
    /\ pc' = "done"
    /\ UNCHANGED <<body, threshold, run, resp, todo, processed, poolVars,
                   decoded, norm, wrap, getVars, parses>>
    /\ UNCHANGED <<other, queries, clientVars>>

\* the same bytes are normalized a second time, once the goroutines of the
\* first run have ended
SecondRun ==
    /\ pc = "done"
    /\ run = 1
    /\ dpc # "send"
    /\ run' = 2
    /\ pc' = "parse"
    /\ resp' = NilResponse
    /\ todo' = {}
    /\ processed' = <<>>
    /\ jobs' = <<>>
    /\ jobsClosed' = FALSE
    /\ results' = <<>>
    /\ errChan' = <<>>
    /\ wpc' = [w \in Workers |-> "idle"]
    /\ wjob' = [w \in Workers |-> NoJob]
    /\ dpc' = "idle"
    /\ decoded' = 0
    /\ UNCHANGED <<body, threshold, norm, out, wrap, getVars, parses>>
    /\ UNCHANGED <<other, queries, clientVars>>

Next ==
    \/ Parse
    \/ ProcessStart
    \/ SeqStep
    \/ SeqReturn
    \/ DispatchSend
    \/ DispatchClose
    \/ \E w \in Workers : WorkerRecv(w)
    \/ \E w \in Workers : WorkerExit(w)
    \/ \E w \in Workers : WorkerDecode(w)
    \/ PoolReturn
    \/ Validate
    \/ SecondRun

Spec ==
    Init /\ [][Next]_vars

\* the Go scheduler lets every goroutine that can take a step take one
\* eventually: the job sender, each worker, and the caller in wg.Wait().
\* A worker that holds a job can always decode it, and only the decoding
\* takes it out of "work": weak fairness of WorkerDecode(w) is the same as
\* the worker being out of "work" again and again.
Fairness ==
    /\ WF_vars(DispatchSend)
    /\ WF_vars(DispatchClose)
    /\ \A w \in Workers :
          /\ WF_vars(WorkerRecv(w))
          /\ WF_vars(WorkerExit(w))
          /\ []<>(wpc[w] # "work")
    /\ WF_vars(PoolReturn)

\* calls that take the worker pool: series of ParallelThreshold to
\* MaxEntries entries, among them entries that do not decode
PoolEntries ==
    {<<ts1600, RawRecord(v38050)>>,
     <<ts1559, RawRecord(v38020)>>,
     <<tsInvalid, RawRecord(v38050)>>,
     <<ts1558, RawRecord(vNotANumber)>>}

PoolBodies ==
    {Envelope(Absent, Absent, Absent, GoodMeta, JObject(SeriesOf(S)), Absent) :
        S \in {T \in SUBSET PoolEntries :
                  /\ Cardinality(T) >= ParallelThreshold
                  /\ Cardinality(T) <= MaxEntries}}

InitPool ==
    /\ InitWith([r \in Runs |-> ParallelThreshold])
    /\ body \in PoolBodies

NextPool ==
    \/ Parse
    \/ ProcessStart
    \/ DispatchSend
    \/ DispatchClose
    \/ \E w \in Workers : WorkerRecv(w)
    \/ \E w \in Workers : WorkerExit(w)
    \/ \E w \in Workers : WorkerDecode(w)
    \/ PoolReturn
    \/ Validate

FairSpec ==
    InitPool /\ [][NextPool]_vars /\ Fairness

\* run 1 always takes the sequential path and run 2 always the worker
\* pool, so that one series mapping goes through both
InitPaths ==
    InitWith([r \in Runs |-> IF r = 1 THEN MaxEntries + 1 ELSE 0])

SpecPaths ==
    InitPaths /\ [][Next]_vars

(***************************************************************************)
(* Get as a whole: one call from its input to its return                   *)
(***************************************************************************)
\* the requests of the whole-call specification: two that pass validation
\* and one for each check that can fail
GetInputs ==
    {IntradayPriceInput(sMSFT, s1min, NilString, NilString),
     IntradayPriceInput(symPadded, s5min, Ptr(m202301), Ptr(sCompact)),
     IntradayPriceInput(symSpaces, s1min, NilString, NilString),
     IntradayPriceInput(symLong, s2min, NilString, NilString),
     IntradayPriceInput(symAAPL, s2min, Ptr(m20231), Ptr(sMedium)),
     IntradayPriceInput(symAAPL, s1min, NilString, Ptr(sMedium)),
     IntradayPriceInput(symAAPL, s1min, Ptr(m20231), NilString)}

Configs ==
    {[APIKey |-> TRUE, BaseURL |-> TRUE], [APIKey |-> FALSE, BaseURL |-> TRUE],
     [APIKey |-> TRUE, BaseURL |-> FALSE]}

\* the state in which a call of Get starts
StartOfCall(inputs, contexts, configs) ==
    /\ input \in inputs
    /\ ctx \in contexts
    /\ config \in configs
    /\ requests = 0
    /\ parses = 0
    /\ body = NoBody
    /\ threshold = [r \in Runs |-> ParallelThreshold]
    /\ run = 1
    /\ pc = "input"
    /\ resp = NilResponse
    /\ todo = {}
    /\ processed = <<>>
    /\ jobs = <<>>
    /\ jobsClosed = FALSE
    /\ results = <<>>
    /\ errChan = <<>>
    /\ wpc = [w \in Workers |-> "idle"]
    /\ wjob = [w \in Workers |-> NoJob]
    /\ dpc = "idle"
    /\ decoded = 0
    /\ norm = [r \in Runs |-> Pending]
    /\ out = [r \in Runs |-> Pending]
    /\ wrap = [r \in Runs |-> <<>>]
    /\ other = NoCall
    /\ queries = <<>>

InitCall(inputs, contexts, configs) ==
    /\ StartOfCall(inputs, contexts, configs)
    /\ InitClient

InitGet ==
    InitCall(GetInputs, {"live", "canceled", "deadline"}, Configs)

NextGet ==
    \/ ValidateInput
    \/ CtxDone
    \/ CheckContext
    \/ FetchStart
    \/ FetchReturn
    \/ CheckContextAgain
    \/ Parse
    \/ ProcessStart
    \/ SeqStep
    \/ SeqReturn
    \/ DispatchSend
    \/ DispatchClose
    \/ \E w \in Workers : WorkerRecv(w)
    \/ \E w \in Workers : WorkerExit(w)
    \/ \E w \in Workers : WorkerDecode(w)
    \/ PoolReturn
    \/ Validate

SpecGet ==
    InitGet /\ [][NextGet]_vars

(***************************************************************************)
(* Two calls of the pipeline in progress at once.  The locals of a call    *)
(* (jsonData, rawResponse, response, processed, the channels and the       *)
(* goroutines of its pool) belong to the call; the parser package has no   *)
(* package-level variable.  The scheduler runs one call at a time and can  *)
(* switch at any step.                                                     *)
(***************************************************************************)
\* the locals of the call that runs
Locals ==
    [body |-> body, run |-> run, pc |-> pc, resp |-> resp, todo |-> todo,
     processed |-> processed, jobs |-> jobs, jobsClosed |-> jobsClosed,
     results |-> results, errChan |-> errChan, wpc |-> wpc, wjob |-> wjob,
     dpc |-> dpc, decoded |-> decoded]

\* the locals of a call whose payload has arrived
Arrived(b, r) ==
    [body |-> b, run |-> r, pc |-> "parse", resp |-> NilResponse, todo |-> {},
     processed |-> <<>>, jobs |-> <<>>, jobsClosed |-> FALSE,
     results |-> <<>>, errChan |-> <<>>, wpc |-> [w \in Workers |-> "idle"],
     wjob |-> [w \in Workers |-> NoJob], dpc |-> "idle", decoded |-> 0]

\* variant: the two calls send their records to one results channel
Switch_SharedResults ==
    /\ other # NoCall
    /\ other' = Locals
    /\ body' = other.body
    /\ run' = other.run
    /\ pc' = other.pc
    /\ resp' = other.resp
    /\ todo' = other.todo
    /\ processed' = other.processed
    /\ jobs' = other.jobs
    /\ jobsClosed' = other.jobsClosed
    /\ errChan' = other.errChan
    /\ wpc' = other.wpc
    /\ wjob' = other.wjob
    /\ dpc' = other.dpc
    /\ decoded' = other.decoded
    /\ UNCHANGED <<results, threshold, norm, out, wrap, getVars, parses>>
    /\ UNCHANGED <<queries, clientVars>>

\* the scheduler leaves the goroutines of one call and runs those of the
\* other call
Switch ==
    /\ other # NoCall
    /\ other' = Locals
    /\ body' = other.body
    /\ run' = other.run
    /\ pc' = other.pc
    /\ resp' = other.resp
    /\ todo' = other.todo
    /\ processed' = other.processed
    /\ jobs' = other.jobs
    /\ jobsClosed' = other.jobsClosed
    /\ results' = other.results
    /\ errChan' = other.errChan
    /\ wpc' = other.wpc
    /\ wjob' = other.wjob
    /\ dpc' = other.dpc
    /\ decoded' = other.decoded
    /\ UNCHANGED <<threshold, norm, out, wrap, getVars, parses>>
    /\ UNCHANGED <<queries, clientVars>>

\* a series body of the given entries
SeriesBody(S) ==
    Envelope(Absent, Absent, Absent, GoodMeta, JObject(SeriesOf(S)), Absent)

\* the payloads of the first and of the second call: a series below and
\* one at ParallelThreshold each, with and without an entry that fails
FirstBodies ==
    {SeriesBody({<<ts1600, RawRecord(v38050)>>}),
     SeriesBody({<<ts1559, RawRecord(v38020)>>,
                 <<ts1558, RawRecord(vNotANumber)>>})}

SecondBodies ==
    {SeriesBody({<<ts1600, RawRecord(v38100)>>,
                 <<ts1559, RawRecord(v38050)>>}),
     SeriesBody({<<tsInvalid, RawRecord(v38050)>>})}

InitConcurrent ==
    /\ InitWith([r \in Runs |-> ParallelThreshold])
    /\ body \in FirstBodies

StartSecond ==
    /\ other = NoCall
    /\ \E b \in SecondBodies : other' = Arrived(b, 2)
    /\ UNCHANGED <<body, threshold, run, pc, resp, todo, processed, poolVars,
                   decoded, norm, out, wrap, getVars, parses>>
    /\ UNCHANGED <<queries, clientVars>>

NextConcurrent ==
    \/ StartSecond
    \/ Switch
    \/ Parse
    \/ ProcessStart
    \/ SeqStep
    \/ SeqReturn
    \/ DispatchSend
    \/ DispatchClose
    \/ \E w \in Workers : WorkerRecv(w)
    \/ \E w \in Workers : WorkerExit(w)
    \/ \E w \in Workers : WorkerDecode(w)
    \/ PoolReturn

SpecConcurrent ==
    InitConcurrent /\ [][NextConcurrent]_vars

\* requests that pass validateInput, with every combination of the optional
\* fields, up to the point where Get hands the queries to the request
QueryInputs ==
    {[Symbol |-> sMSFT, Interval |-> i, Adjusted |-> a, ExtendedHours |-> e,
      Month |-> m, OutputSize |-> o] :
        i \in {s1min, s5min, s15min, s30min, s60min},
        a \in {NilBool, Ptr(TRUE), Ptr(FALSE)},
        e \in {NilBool, Ptr(TRUE), Ptr(FALSE)},
        m \in {NilString, Ptr(m202301), Ptr(m202313)},
        o \in {NilString, Ptr(sCompact), Ptr(sFull)}}

InitQueries ==
    InitCall(QueryInputs, {"live"}, {[APIKey |-> TRUE, BaseURL |-> TRUE]})

NextQueries ==
    \/ ValidateInput
    \/ CheckContext
    \/ FetchStart

SpecQueries ==
    InitQueries /\ [][NextQueries]_vars

\* validateInput alone, on every request of the pools
\* one tool instance used by four goroutines
InitShared ==
    InitCall({IntradayPriceInput(sMSFT, s5min, NilString, NilString)},
             {"live"}, {[APIKey |-> TRUE, BaseURL |-> TRUE]})

NextShared ==
    \/ GetStatsRLock
    \/ GetStatsReturn
    \/ CloseLock
    \/ CloseReturn
    \/ SetTimeoutLock
    \/ SetTimeoutWrite
    \/ SetTimeoutReturn
    \/ ToolGet
    \/ GetReadTimeout
    \/ ToolGetReturn

SpecShared ==
    InitShared /\ [][NextShared]_vars

\* one FastHTTPClient, of any of the configurations, used by the callers
InitDo ==
    /\ StartOfCall({IntradayPriceInput(sMSFT, s5min, NilString, NilString)},
                   {"live"}, {[APIKey |-> TRUE, BaseURL |-> TRUE]})
    /\ InitTool
    /\ InitHTTP(HTTPConfigs)
    /\ InitRegistry

NextDo ==
    \E c \in Callers :
        \/ DoStart(c)
        \/ PerformRequest(c)
        \/ DoSuccess(c)
        \/ DoClassify(c)
        \/ TimerFires(c)
        \/ Cancel(c)
        \/ SelectResume(c)
        \/ DoFail(c)

SpecDo ==
    InitDo /\ [][NextDo]_vars

\* one client pool used by the callers
InitClients ==
    InitShared

NextClients ==
    \E c \in Callers :
        \/ GetClientLookup(c)
        \/ GetClientCreate(c)
        \/ GetClientStore(c)

SpecClients ==
    InitClients /\ [][NextClients]_vars

InitInput ==
    InitCall(Inputs, {"live"}, {[APIKey |-> TRUE, BaseURL |-> TRUE]})

NextInput ==
    ValidateInput

SpecInput ==
    InitInput /\ [][NextInput]_vars

(***************************************************************************)
(* Properties                                                              *)
(***************************************************************************)
\* top-level keys of the envelope
EnvelopeKeys ==
    IF body.t = "object" THEN DOMAIN body.v ELSE {}

ErrorKeys ==
    EnvelopeKeys \cap {kErrorMessage, kNote, kInformation}

\* top-level keys with "time series" somewhere in them, in any letter case
SeriesKeys ==
    {k \in EnvelopeKeys :
        \E i \in 1..Len(k) :
            i + 10 <= Len(k) /\ ToLower(SubSeq(k, i, i + 10)) = sTimeSeries}

\* the "Meta Data" member can be decoded into the MetaData struct
MetaDecodes ==
    \/ kMetaData \notin EnvelopeKeys
    \/ body.v[kMetaData].t = "null"
    \/ /\ body.v[kMetaData].t = "object"
       /\ \A k \in MetaDataKeys \cap DOMAIN body.v[kMetaData].v :
             body.v[kMetaData].v[k].t \in {"string", "null"}

\* IntradayPrices of the run in progress has returned / returned a response
Parsed ==
    pc # "parse"

ParsedOk ==
    Parsed /\ ~resp.nilSeries

\* IntradayPrices + ProcessTimeSeries of the run in progress have returned
Normalized ==
    pc \in {"validate", "done"} /\ norm[run].done

NormalizedOk ==
    Normalized /\ norm[run].err = NoErr

Ascending(s) ==
    \A i \in 1..(Len(s) - 1) : ~Before(s[i + 1].Timestamp, s[i].Timestamp)

StrictlyAscending(s) ==
    \A i \in 1..(Len(s) - 1) : Before(s[i].Timestamp, s[i + 1].Timestamp)

\* the keys of the extracted series denote pairwise different instants
DistinctInstants ==
    \A a, b \in DOMAIN resp.TimeSeries :
        a # b => ParseTime(a).t # ParseTime(b).t

SomeEntryFails ==
    \E k \in DOMAIN resp.TimeSeries :
        processEntry(k, resp.TimeSeries[k]).err # NoErr

\* C2: ProcessTimeSeries is all-or-nothing.  If an entry of the series
\* mapping does not decode, the call returns a decode error and no output;
\* if it returns an output, the output has one record per entry.  Holds on
\* the sequential path (run 1) and the worker-pool path (run 2).
C2_AllOrNothing ==
    (Normalized /\ ParsedOk) =>
        IF SomeEntryFails
        THEN /\ norm[run].err.kind \in DecodeKinds
             /\ norm[run].TimeSeries = <<>>
             /\ out[run].done => out[run] = norm[run]
        ELSE /\ norm[run].err = NoErr
             /\ Len(norm[run].TimeSeries) = Cardinality(DOMAIN resp.TimeSeries)

\* the worker pool returned an error although records had been decoded
C2_Witness ==
    /\ Normalized
    /\ run = 2
    /\ norm[run].err.kind \in DecodeKinds
    /\ norm[run].TimeSeries = <<>>
    /\ results # <<>>

\* the envelope is a data envelope with exactly one series container
OneSeries ==
    /\ ErrorKeys = {}
    /\ MetaDecodes
    /\ Cardinality(SeriesKeys) = 1
    /\ \A k \in SeriesKeys : body.v[k].t = "object"

\* the raw series mapping of such an envelope
RawSeries ==
    body.v[CHOOSE k \in SeriesKeys : TRUE].v

ObjectEntries ==
    {k \in DOMAIN RawSeries : RawSeries[k].t = "object"}

IncompleteEntries ==
    {k \in ObjectEntries :
        ~({kOpen, kHigh, kLow, kClose, kVolume} \subseteq DOMAIN RawSeries[k].v)}

\* C3 (as stated): an entry that lacks a sub-field is dropped without
\* failing the call; the entries that decode are returned.
C3_MissingFieldDropped ==
    (Normalized /\ OneSeries /\ IncompleteEntries # {}
        /\ \A k \in ObjectEntries \ IncompleteEntries :
              processEntry(k, resp.TimeSeries[k]).err = NoErr) =>
        /\ norm[run].err = NoErr
        /\ Len(norm[run].TimeSeries)
              = Cardinality(ObjectEntries \ IncompleteEntries)

\* C3 (amended): only an entry whose value is not a JSON object is dropped
\* without failing the call (the other entries are still returned).  An
\* entry that lacks one of the five sub-fields is kept with the empty string
\* in its place and fails the whole call, like an entry whose sub-field is
\* present with a non-numeric value.
C3_Leniency ==
    (Normalized /\ OneSeries) =>
        /\ DOMAIN resp.TimeSeries = ObjectEntries
        /\ IncompleteEntries # {} => norm[run].err.kind \in DecodeKinds
        /\ (\A k \in ObjectEntries :
               processEntry(k, resp.TimeSeries[k]).err = NoErr) =>
              /\ norm[run].err = NoErr
              /\ Len(norm[run].TimeSeries) = Cardinality(ObjectEntries)

\* a non-object entry was dropped and the other entries were returned
C3_Witness ==
    /\ NormalizedOk
    /\ OneSeries
    /\ DOMAIN RawSeries # ObjectEntries
    /\ Len(norm[run].TimeSeries) >= 1

\* C4: for one series mapping, the sequential path (run 1) and the
\* worker-pool path (run 2) both fail or both return the identical sorted
\* sequence.
C4_PathsAgree ==
    (norm[1].done /\ norm[2].done /\ Cardinality(SeriesKeys) <= 1) =>
        IF norm[1].err # NoErr \/ norm[2].err # NoErr
        THEN norm[1].err # NoErr /\ norm[2].err # NoErr
        ELSE norm[1].TimeSeries = norm[2].TimeSeries

\* C5: normalizing the same bytes twice gives identical results, or fails
\* both times, also when several top-level keys contain "time series".
C5_Deterministic ==
    (norm[1].done /\ norm[2].done) =>
        IF norm[1].err # NoErr \/ norm[2].err # NoErr
        THEN norm[1].err # NoErr /\ norm[2].err # NoErr
        ELSE norm[1] = norm[2]

\* C6: "Error Message" wins over "Note", and "Note" over "Information":
\* an envelope with "Error Message" and "Note" is reported as the API error,
\* one with "Note" and "Information" (and no "Error Message") as the note.
C6_Priority ==
    Parsed =>
        /\ {kErrorMessage, kNote} \subseteq EnvelopeKeys =>
              norm[run].err.kind = "API error"
        /\ ({kNote, kInformation} \subseteq EnvelopeKeys
               /\ kErrorMessage \notin EnvelopeKeys) =>
              norm[run].err.kind = "API note (likely rate limit)"

\* the "Information" value is a string that contains "rate limit" or
\* "premium" in any letter case
InformationIsRateLimit ==
    /\ body.v[kInformation].t = "string"
    /\ \/ Contains(ToLower(body.v[kInformation].v), sRateLimit)
       \/ Contains(ToLower(body.v[kInformation].v), sPremium)

\* C7: an envelope with "Information" (and neither "Error Message" nor
\* "Note") always fails, with the rate-limit error or the informational
\* error, whatever the JSON type of the value.
C7_InformationFails ==
    (Parsed /\ ErrorKeys = {kInformation}) =>
        norm[run].err.kind = IF InformationIsRateLimit
                             THEN "API rate limit reached"
                             ELSE "API information"

\* C8: an envelope with an upstream error key never fails with the
\* structured-decoding error, whatever its other keys hold.
C8_ClassifiedBeforeDecoding ==
    (Parsed /\ ErrorKeys # {}) =>
        norm[run].err.kind # "error parsing JSON into structured response"

\* extractTimeSeries was called by the run in progress and has returned
Extracted ==
    Parsed /\ body.t = "object" /\ ErrorKeys = {} /\ MetaDecodes

\* C9 (as stated): extractTimeSeries succeeds exactly when some key that
\* contains "time series" has an object value; without such a key it fails
\* with "no time series data found", and with such a key whose value is not
\* an object it fails with the format error.
C9_SucceedsIffSomeKey ==
    Extracted =>
        /\ ParsedOk <=> \E k \in SeriesKeys : body.v[k].t = "object"
        /\ SeriesKeys = {} =>
              norm[run].err.kind = "no time series data found in response"
        /\ (\E k \in SeriesKeys : body.v[k].t # "object") =>
              norm[run].err.kind = "time series data is not in expected format"

\* C9 (amended): extractTimeSeries fails with "no time series data found"
\* exactly when no top-level key contains "time series" (any letter case,
\* any interval text).  Otherwise it takes one such key - the first that
\* the map iteration yields - and succeeds when that key's value is an
\* object, else fails with the format error; with exactly one such key it
\* succeeds exactly when that key's value is an object.
C9_KeyResolution ==
    Extracted =>
        /\ ParsedOk =>
              \E k \in SeriesKeys :
                  /\ body.v[k].t = "object"
                  /\ DOMAIN resp.TimeSeries \subseteq DOMAIN body.v[k].v
        /\ ~ParsedOk =>
              norm[run].err.kind \in
                  {"no time series data found in response",
                   "time series data is not in expected format"}
        /\ SeriesKeys = {} <=>
              norm[run].err.kind = "no time series data found in response"
        /\ norm[run].err.kind = "time series data is not in expected format" =>
              \E k \in SeriesKeys : body.v[k].t # "object"
        /\ Cardinality(SeriesKeys) = 1 =>
              (ParsedOk <=> \A k \in SeriesKeys : body.v[k].t = "object")

\* the only series key is upper case and was resolved
C9_Witness ==
    /\ Extracted
    /\ ParsedOk
    /\ SeriesKeys = {kTimeSeriesUpper}
    /\ DOMAIN resp.TimeSeries # {}

\* the envelope is a data envelope whose one series container is {}
EmptySeries ==
    OneSeries /\ DOMAIN RawSeries = {}

\* C10 (as stated): an envelope whose series key maps to {} is normalized
\* without error to zero records and then rejected with the
\* no-time-series-data error.
C10_EmptyRejectedNoData ==
    (EmptySeries /\ out[run].done) =>
        /\ norm[run].err = NoErr
        /\ norm[run].TimeSeries = <<>>
        /\ out[run].err.kind = "no time series data returned"

\* C10 (amended): an envelope whose series key maps to {} is normalized
\* without error to zero records and then rejected by validateResponse:
\* with the no-time-series-data error when the metadata symbol and interval
\* are not empty, and with the error of the earlier symbol or interval check
\* otherwise.  No call returns successfully with an empty time series.
C10_EmptyRejected ==
    /\ (EmptySeries /\ out[run].done) =>
          /\ norm[run].err = NoErr
          /\ norm[run].TimeSeries = <<>>
          /\ out[run].err.kind =
                IF norm[run].MetaData.Symbol = <<>>
                THEN "no data returned for symbol"
                ELSE IF norm[run].MetaData.Interval = <<>>
                THEN "invalid response: missing interval information"
                ELSE "no time series data returned"
    /\ \A r \in Runs :
          (out[r].done /\ out[r].err = NoErr) => Len(out[r].TimeSeries) > 0

\* an empty series with full metadata was rejected for having no data
C10_Witness ==
    /\ EmptySeries
    /\ out[run].done
    /\ norm[run].err = NoErr
    /\ out[run].err.kind = "no time series data returned"

(***************************************************************************)
(* C11: the order of the three checks of validateResponse                  *)
(***************************************************************************)
\* run r came back from ProcessTimeSeries with an output and Get has returned
Checked(r) ==
    norm[r].done /\ norm[r].err = NoErr /\ out[r].done

\* C11: validateResponse checks the metadata symbol, then the metadata
\* interval, then the record sequence, and reports the first check that
\* fails: an empty symbol always gives the no-data-for-symbol error, a
\* non-empty symbol with an empty interval gives the missing-interval error
\* also when the sequence is empty, and Get succeeds exactly when all three
\* are non-empty.
C11_CheckOrder ==
    \A r \in Runs :
        Checked(r) =>
            /\ norm[r].MetaData.Symbol = <<>> =>
                   out[r].err.kind = "no data returned for symbol"
            /\ (norm[r].MetaData.Symbol # <<>>
                    /\ norm[r].MetaData.Interval = <<>>) =>
                   out[r].err.kind =
                       "invalid response: missing interval information"
            /\ (norm[r].MetaData.Symbol # <<>>
                    /\ norm[r].MetaData.Interval # <<>>
                    /\ norm[r].TimeSeries = <<>>) =>
                   out[r].err.kind = "no time series data returned"
            /\ out[r].err = NoErr <=>
                   /\ norm[r].MetaData.Symbol # <<>>
                   /\ norm[r].MetaData.Interval # <<>>
                   /\ norm[r].TimeSeries # <<>>

\* an output with a symbol, no interval and no records was rejected for its
\* interval
C11_Witness ==
    /\ Checked(1)
    /\ norm[1].MetaData.Symbol # <<>>
    /\ norm[1].MetaData.Interval = <<>>
    /\ norm[1].TimeSeries = <<>>
    /\ out[1].err.kind = "invalid response: missing interval information"

(***************************************************************************)
(* C14: the goroutines of the worker pool at the return                    *)
(***************************************************************************)
\* C14: when the worker-pool path of ProcessTimeSeries has returned, with an
\* output or with an error, none of the goroutines it started is still
\* running: every worker has ended and so has the goroutine that sends
\* the jobs.
C14_DrainedAtReturn ==
    pc \in {"validate", "done"} =>
        /\ \A w \in Workers : wpc[w] \in {"idle", "done"}
        /\ dpc \in {"idle", "done"}

(***************************************************************************)
(* C12: the order of the stages of Get                                     *)
(***************************************************************************)
\* the Get call has returned
GetReturned ==
    pc = "done" /\ out[1].done

\* the upstream answered with a body (status 200)
Answered ==
    body # NoBody

FetchKinds ==
    {"api key is required", "base URL is required", "failed after attempts",
     "API rate limit exceeded", "invalid API key",
     "access forbidden - check API permissions", "unexpected status code",
     "API error"}

ContextKinds ==
    {"context canceled", "context deadline exceeded"}

\* the errors of extractTimeSeries
ResolutionKinds ==
    {"no raw data available", "no time series data found in response",
     "time series data is not in expected format"}

\* C12: Get runs input validation, cancellation check, fetch, cancellation
\* check, upstream error classification, time-series key resolution, record
\* decoding and sort, integrity check, in this order, and returns the error
\* of the earliest stage that fails: an invalid input gives the validation
\* error; without an answer the error is one of the first check or of the
\* fetch; an answer the request client rejects gives its error; a context
\* that ended gives the context error; an envelope with an upstream error
\* key gives the classification error; an envelope without a series object
\* gives the resolution error; an entry that does not decode gives the
\* decode error; only then does the integrity check decide.
C12_EarliestStage ==
    GetReturned =>
        IF validateInput(input) # NoErr
        THEN /\ out[1].err = validateInput(input)
             /\ wrap[1] = <<"input validation failed">>
        ELSE IF ~Answered
        THEN out[1].err.kind \in ContextKinds \cup FetchKinds
        ELSE IF checkAPIError(body) # NoErr
        THEN /\ out[1].err = checkAPIError(body)
             /\ wrap[1] = fetchWrap(<<>>)
        ELSE IF ctx # "live"
        THEN out[1].err = ctxErr(ctx) /\ wrap[1] = <<>>
        ELSE IF ErrorKeys # {}
        THEN out[1].err.kind \in UpstreamKinds
        ELSE IF body.t \notin {"object", "null"} \/ ~MetaDecodes
        THEN out[1].err.kind \in
                 {"error parsing JSON into raw map",
                  "error parsing JSON into structured response"}
        ELSE IF ~(\E k \in SeriesKeys : body.v[k].t = "object")
        THEN out[1].err.kind \in ResolutionKinds
        ELSE IF out[1].err.kind \in ResolutionKinds
        THEN \E k \in SeriesKeys : body.v[k].t # "object"
        ELSE IF wrap[1] = <<"failed to parse intraday data for symbol">>
        THEN FALSE
        ELSE IF SomeEntryFails
        THEN /\ out[1].err.kind \in DecodeKinds
             /\ wrap[1] = <<"failed to process time series data for symbol">>
        ELSE out[1].err = validateResponse(norm[1], input.Symbol)

(***************************************************************************)
(* C13: the upstream message in the error of Get                           *)
(***************************************************************************)
\* the message value of the upstream error key of the answer: that of
\* "Error Message" when the key is there, else that of "Note"
UpstreamMessage ==
    IF kErrorMessage \in EnvelopeKeys
    THEN Render(body.v[kErrorMessage])
    ELSE Render(body.v[kNote])

\* C13: when the fetched body is an envelope with an "Error Message" or a
\* "Note" key and the context has not ended, the error Get returns contains
\* the message value of that key verbatim.
C13_UpstreamTextVerbatim ==
    (GetReturned /\ Answered /\ ctx = "live"
        /\ EnvelopeKeys \cap {kErrorMessage, kNote} # {}) =>
        /\ out[1].err # NoErr
        /\ Contains(out[1].err.text, UpstreamMessage)

(***************************************************************************)
(* C17: request validation comes first                                     *)
(***************************************************************************)
\* C17: when the request fails validateInput, Get returns the validation
\* error, wrapped as "input validation failed", without having handed a
\* request to the HTTP client or called the parser - also when the context
\* had ended before the call.
C17_ValidationFirst ==
    (pc # "input" /\ validateInput(input) # NoErr) =>
        /\ pc = "done"
        /\ out[1] = Failed(validateInput(input))
        /\ wrap[1] = <<"input validation failed">>
        /\ requests = 0
        /\ parses = 0

\* a call with an invalid interval and a cancelled context has returned the
\* validation error
C17_Witness ==
    /\ pc = "done"
    /\ ctx = "canceled"
    /\ out[1].err.kind = "invalid interval"
    /\ wrap[1] = <<"input validation failed">>
    /\ requests = 0

(***************************************************************************)
(* C18: a context that has ended                                           *)
(***************************************************************************)
\* C18: with a valid input, the check of a context that has ended makes Get
\* return exactly ctx.Err(), not wrapped: before the fetch, with no request
\* issued and nothing parsed, and after the fetch, with nothing parsed.  The
\* parser is never called while the context has ended.
C18_ContextEnded ==
    [][/\ (pc = "ctx1" /\ ctx # "live" /\ pc' # pc) =>
              /\ pc' = "done"
              /\ out'[1] = Failed(ctxErr(ctx))
              /\ wrap'[1] = <<>>
              /\ requests' = 0
              /\ parses' = 0
       /\ (pc = "ctx2" /\ ctx # "live" /\ pc' # pc) =>
              /\ pc' = "done"
              /\ out'[1] = Failed(ctxErr(ctx))
              /\ wrap'[1] = <<>>
              /\ parses' = 0
       /\ ctx' # "live" => parses' = 0]_vars

\* a call with a valid input and a context cancelled before the first check
\* has returned the bare cancellation error; no request was issued
C18_Witness ==
    /\ pc = "done"
    /\ validateInput(input) = NoErr
    /\ config.APIKey /\ config.BaseURL
    /\ ctx = "canceled"
    /\ out[1] = Failed(ctxErr("canceled"))
    /\ wrap[1] = <<>>
    /\ requests = 0
    /\ parses = 0

(***************************************************************************)
(* C19: the contract of ValidateSymbol                                     *)
(***************************************************************************)
\* the symbol without its leading and trailing whitespace
Stripped(s) ==
    CHOOSE t \in {SubSeq(s, i, j) : i \in 1..(Len(s) + 1), j \in 0..Len(s)} :
        /\ \E i \in 1..(Len(s) + 1), j \in 0..Len(s) :
              /\ t = SubSeq(s, i, j)
              /\ \A k \in (1..(i - 1)) \cup ((j + 1)..Len(s)) :
                     s[k] \in SpaceChars
        /\ t # <<>> => (t[1] \notin SpaceChars /\ t[Len(t)] \notin SpaceChars)

SymbolKinds ==
    {"symbol cannot be empty", "symbol appears to be invalid (too long)",
     "symbol contains invalid characters"}

\* the error the contract gives a symbol, "" when it accepts it: the length
\* is counted in characters
SymbolVerdict(symbol) ==
    IF Stripped(symbol) = <<>>
    THEN "symbol cannot be empty"
    ELSE IF Len(Stripped(symbol)) > 10
    THEN "symbol appears to be invalid (too long)"
    ELSE IF \E i \in 1..Len(Stripped(symbol)) :
                ~isSymbolChar(Stripped(symbol)[i])
    THEN "symbol contains invalid characters"
    ELSE ""

\* C19: ValidateSymbol fails exactly when the trimmed symbol is empty, or
\* longer than 10 characters, or holds a character outside [A-Za-z0-9.],
\* and reports the first of these checks that fails, in this order.
C19_SymbolContract ==
    pc # "input" =>
        IF SymbolVerdict(input.Symbol) = ""
        THEN out[1].err.kind \notin SymbolKinds
        ELSE out[1].err.kind = SymbolVerdict(input.Symbol)

(***************************************************************************)
(* C20: the contract of validateInput                                      *)
(***************************************************************************)
\* four bytes, a hyphen and two bytes
HasMonthShape(month) ==
    \E i \in 1..Len(Bytes(month)) :
        /\ i = 5
        /\ Len(Bytes(month)) = i + 2
        /\ Bytes(month)[i] = "-"

IntervalOk ==
    input.Interval \in {s1min, s5min, s15min, s30min, s60min}

OutputSizeOk ==
    input.OutputSize = NilString \/ input.OutputSize.v \in {sCompact, sFull}

MonthOk ==
    input.Month = NilString \/ HasMonthShape(input.Month.v)

\* C20: validateInput accepts a request exactly when the symbol passes
\* ValidateSymbol, the interval is one of the five granularities, the output
\* size is absent or compact or full, and the month is absent or has the
\* YYYY-MM shape; otherwise it fails with the error of the first check that
\* fails, in the order symbol, interval, output size, month, and the error
\* names the offending value.
C20_InputContract ==
    pc # "input" =>
        /\ pc = "ctx1" <=>
               /\ ValidateSymbol(input.Symbol) = NoErr
               /\ IntervalOk /\ OutputSizeOk /\ MonthOk
        /\ pc = "ctx1" => out[1] = Pending
        /\ ValidateSymbol(input.Symbol) # NoErr =>
               out[1] = Failed(ValidateSymbol(input.Symbol))
        /\ (ValidateSymbol(input.Symbol) = NoErr /\ ~IntervalOk) =>
               out[1] = Failed(Err("invalid interval", input.Interval))
        /\ (ValidateSymbol(input.Symbol) = NoErr /\ IntervalOk
               /\ ~OutputSizeOk) =>
               out[1] = Failed(Err("invalid output size", input.OutputSize.v))
        /\ (ValidateSymbol(input.Symbol) = NoErr /\ IntervalOk
               /\ OutputSizeOk /\ ~MonthOk) =>
               out[1] = Failed(Err("invalid month format", input.Month.v))

\* a request with a bad interval, a bad output size and a bad month was
\* rejected for its interval
C20_Witness ==
    /\ pc = "done"
    /\ ValidateSymbol(input.Symbol) = NoErr
    /\ ~IntervalOk /\ ~OutputSizeOk /\ ~MonthOk
    /\ out[1] = Failed(Err("invalid interval", input.Interval))

(***************************************************************************)
(* C15: the worker pool returns                                            *)
(***************************************************************************)
\* C15: under fair scheduling of the job sender, the workers and the
\* caller, every call that takes the worker-pool path returns - no
\* interleaving blocks on the jobs, results or error channel, also when
\* workers stop early on a decode failure - and the call leaves the pool
\* (error check, collection, sort) only when every worker has exited.
C15_PoolReturns ==
    /\ (pc = "pool") ~> (pc # "pool")
    /\ [][(pc = "pool" /\ pc' # "pool") =>
              \A w \in Workers : wpc[w] = "done"]_vars

\* the pool has returned a decode error after every worker stopped early,
\* with jobs left on the channel
C15_Witness ==
    /\ pc = "done"
    /\ \A w \in Workers : wpc[w] = "done"
    /\ norm[run].err.kind \in DecodeKinds
    /\ jobs # <<>>

(***************************************************************************)
(* C16: two pipelines in progress at once                                  *)
(***************************************************************************)
\* n is a result of IntradayPrices + ProcessTimeSeries on the payload b when
\* the call runs alone: the error of the parser; else the error of an entry
\* that does not decode; else the metadata and the decoded records of all
\* entries in an ascending order
AloneResult(b, n) ==
    \E o \in IntradayPrices(b) :
        IF o.err # NoErr
        THEN n = Failed(o.err)
        ELSE IF o.resp.nilSeries
        THEN n = Returned(o.resp.MetaData, <<>>)
        ELSE IF \E k \in DOMAIN o.resp.TimeSeries :
                    processEntry(k, o.resp.TimeSeries[k]).err # NoErr
        THEN \E k \in DOMAIN o.resp.TimeSeries :
                 /\ processEntry(k, o.resp.TimeSeries[k]).err # NoErr
                 /\ n = Failed(processEntry(k, o.resp.TimeSeries[k]).err)
        ELSE /\ n.done
             /\ n.err = NoErr
             /\ n.MetaData = o.resp.MetaData
             /\ IsSorted(n.TimeSeries)
             /\ Len(n.TimeSeries) = Cardinality(DOMAIN o.resp.TimeSeries)
             /\ \A k \in DOMAIN o.resp.TimeSeries :
                    \E i \in 1..Len(n.TimeSeries) :
                        n.TimeSeries[i] =
                            processEntry(k, o.resp.TimeSeries[k]).rec

\* a call that runs alone returns a result of its payload
AloneAgrees ==
    Normalized => AloneResult(body, norm[run])

\* C16: when two pipelines are in progress at once on different payloads,
\* whatever the interleaving of their steps, each returns a result that it
\* returns on its payload when it runs alone.
C16_NoInterference ==
    other # NoCall =>
        /\ body # other.body
        /\ (pc \in {"validate", "done"} /\ norm[run].done) =>
               AloneResult(body, norm[run])
        /\ (other.pc \in {"validate", "done"} /\ norm[other.run].done) =>
               AloneResult(other.body, norm[other.run])

\* the second call has returned its two records while the pool of the first
\* call, which has decoded a record, is still at work
C16_Witness ==
    /\ other # NoCall
    /\ run = 2
    /\ pc = "validate"
    /\ norm[2].err = NoErr
    /\ Len(norm[2].TimeSeries) = 2
    /\ other.pc = "pool"
    /\ other.results # <<>>
    /\ norm[1] = Pending

(***************************************************************************)
(* C21: the month check looks at the shape only                            *)
(***************************************************************************)
\* validateInput has reached the month check with a month to look at
MonthChecked ==
    /\ pc # "input"
    /\ ValidateSymbol(input.Symbol) = NoErr
    /\ IntervalOk
    /\ OutputSizeOk
    /\ input.Month # NilString

\* C21: a month value is accepted exactly when its length (len, in bytes) is
\* 7 and the byte at offset 4 is a hyphen; nothing else is looked at, so
\* "2023-13" and "abcd-ef" are accepted and "2023-1" is rejected with the
\* month-format error.
C21_ShapeOnly ==
    MonthChecked =>
        /\ pc = "ctx1" <=>
               /\ Len(Bytes(input.Month.v)) = 7
               /\ SubSeq(Bytes(input.Month.v), 5, 5) = <<"-">>
        /\ pc # "ctx1" =>
               out[1] = Failed(Err("invalid month format", input.Month.v))
        /\ input.Month.v \in {m202313, mLetters} => pc = "ctx1"
        /\ input.Month.v = m20231 => pc = "done"

\* the month "2023-13" has been accepted
C21_Witness ==
    /\ MonthChecked
    /\ input.Month.v = m202313
    /\ pc = "ctx1"

(***************************************************************************)
(* C23: the order of the checks of processEntry                            *)
(***************************************************************************)
\* the text has the form "YYYY-MM-DD HH:MM:SS": 19 characters, digits with
\* the separators at their places
MatchesLayout(s) ==
    /\ Len(s) = 19
    /\ \A i \in 1..19 :
          IF i \in {5, 8} THEN s[i] = "-"
          ELSE IF i = 11 THEN s[i] = " "
          ELSE IF i \in {14, 17} THEN s[i] = ":"
          ELSE s[i] \in Digits

\* a decimal number: an optional sign, digits, at most one point
IsDecimal(s) ==
    \E digits \in {IF s # <<>> /\ s[1] \in {"+", "-"} THEN Tail(s) ELSE s} :
        /\ \E i \in 1..Len(digits) : digits[i] \in Digits
        /\ \A i \in 1..Len(digits) : digits[i] \in Digits \cup {"."}
        /\ Cardinality({i \in 1..Len(digits) : digits[i] = "."}) <= 1

\* a whole number: an optional sign and digits
IsWhole(s) ==
    \E digits \in {IF s # <<>> /\ s[1] \in {"+", "-"} THEN Tail(s) ELSE s} :
        /\ digits # <<>>
        /\ \A i \in 1..Len(digits) : digits[i] \in Digits

\* the error the contract gives an entry: that of its first part, in the
\* order timestamp, open, high, low, close, volume, that does not parse
EntryVerdict(k, o) ==
    IF ~MatchesLayout(k) \/ ~ParseTime(k).ok THEN "error parsing timestamp"
    ELSE IF ~IsDecimal(o.Open) THEN "error parsing open price"
    ELSE IF ~IsDecimal(o.High) THEN "error parsing high price"
    ELSE IF ~IsDecimal(o.Low) THEN "error parsing low price"
    ELSE IF ~IsDecimal(o.Close) THEN "error parsing close price"
    ELSE IF ~IsWhole(o.Volume) THEN "error parsing volume"
    ELSE NoErr.kind

\* C23: processEntry looks at timestamp, open, high, low, close, volume in
\* this order and fails on the first part that does not parse: a timestamp
\* that does not match "YYYY-MM-DD HH:MM:SS" gives the timestamp error, a
\* non-numeric price the error of its field, a non-integer volume the volume
\* error, each with the timestamp string; an entry whose parts all parse
\* succeeds.
C23_FirstFailingPart ==
    ParsedOk =>
        \A k \in DOMAIN resp.TimeSeries :
            /\ processEntry(k, resp.TimeSeries[k]).err.kind =
                   EntryVerdict(k, resp.TimeSeries[k])
            /\ processEntry(k, resp.TimeSeries[k]).err # NoErr =>
                   processEntry(k, resp.TimeSeries[k]).err.text = k

(***************************************************************************)
(* C25: what happens after a decode failure                                *)
(***************************************************************************)
\* C25: once an entry has failed to decode and the worker pool has recorded
\* the failure, no worker takes another job and no further entry is decoded
\* before ProcessTimeSeries returns the error.
C25_AbortsAtOnce ==
    [][(pc = "pool" /\ errChan # <<>>) =>
           /\ \A w \in Workers : wpc[w] = "recv" => wpc'[w] # "work"
           /\ decoded' = decoded]_vars

(***************************************************************************)
(* C26: one record per entry on the worker-pool path                       *)
(***************************************************************************)
\* the worker pool of the run in progress has returned
PoolNormalized ==
    /\ Normalized
    /\ ParsedOk
    /\ \A w \in Workers : wpc[w] = "done"
    /\ Cardinality(DOMAIN resp.TimeSeries) >= threshold[run]

\* C26: when every entry decodes, the worker pool returns exactly one record
\* for each entry of the series mapping - the records are those of the
\* entries, one to one - and every entry has been decoded once, whatever
\* the interleaving of the job sender and the workers.
C26_OneRecordPerEntry ==
    (PoolNormalized /\ ~SomeEntryFails) =>
        /\ norm[run].err = NoErr
        /\ Len(norm[run].TimeSeries) = Cardinality(DOMAIN resp.TimeSeries)
        /\ decoded = Cardinality(DOMAIN resp.TimeSeries)
        /\ \E p \in [1..Len(norm[run].TimeSeries) -> DOMAIN resp.TimeSeries] :
              /\ \A k \in DOMAIN resp.TimeSeries :
                     Cardinality({i \in DOMAIN p : p[i] = k}) = 1
              /\ \A i \in DOMAIN p :
                     norm[run].TimeSeries[i] =
                         processEntry(p[i], resp.TimeSeries[p[i]]).rec

\* the pool has returned the three records of a series of three entries
C26_Witness ==
    /\ PoolNormalized
    /\ ~SomeEntryFails
    /\ Cardinality(DOMAIN resp.TimeSeries) = 3
    /\ Len(norm[run].TimeSeries) = 3

(***************************************************************************)
(* C22: the query parameters                                               *)
(***************************************************************************)
QueryOrder ==
    <<"function", "interval", "adjusted", "extended_hours", "month",
      "outputsize">>

\* the parameter is mandatory or its field of the input is not nil
Present(name) ==
    \/ name \in {"function", "interval"}
    \/ name = "adjusted" /\ input.Adjusted # NilBool
    \/ name = "extended_hours" /\ input.ExtendedHours # NilBool
    \/ name = "month" /\ input.Month # NilString
    \/ name = "outputsize" /\ input.OutputSize # NilString

BoolText(b) ==
    IF b = TRUE THEN <<"t", "r", "u", "e">> ELSE <<"f", "a", "l", "s", "e">>

ValueOf(name) ==
    CASE name = "function" -> sFunction
      [] name = "interval" -> input.Interval
      [] name = "adjusted" -> BoolText(input.Adjusted.v)
      [] name = "extended_hours" -> BoolText(input.ExtendedHours.v)
      [] name = "month" -> input.Month.v
      [] name = "outputsize" -> input.OutputSize.v

\* C22: the queries Get builds are function=TIME_SERIES_INTRADAY and
\* interval=<interval>, followed by one pair for each optional field that is
\* not nil and none for a nil one, in the order function, interval,
\* adjusted, extended_hours, month, outputsize; a boolean is rendered as
\* "true" or "false".
C22_QueryList ==
    pc = "wait" =>
        /\ [i \in 1..Len(queries) |-> queries[i].Name] =
               SelectSeq(QueryOrder, Present)
        /\ \A i \in 1..Len(queries) :
               queries[i].Value = ValueOf(queries[i].Name)

\* a request with adjusted=false, no extended-hours flag, a month and no
\* output size gave four pairs
C22_Witness ==
    /\ pc = "wait"
    /\ input.Adjusted = Ptr(FALSE)
    /\ input.ExtendedHours = NilBool
    /\ input.Month = Ptr(m202301)
    /\ input.OutputSize = NilString
    /\ Len(queries) = 4
    /\ queries[3] = [Name |-> "adjusted", Value |-> <<"f", "a", "l", "s", "e">>]
    /\ queries[4].Name = "month"

(***************************************************************************)
(* C24: the tool under concurrent use                                      *)
(***************************************************************************)
\* C24: whatever GetStats, Close, SetTimeout and Get do concurrently on one
\* tool, the read of config.Timeout by the request of Get and the write of
\* it by SetTimeout are never both about to happen, i.e. the two accesses
\* are mutually exclusive.
C24_TimeoutExclusive ==
    ~(tool["timeout"] = "write" /\ tool["get"] = "read")

(***************************************************************************)
(* C27: the attempts of one call of Do                                     *)
(***************************************************************************)
\* the step starts an attempt of caller c
StartsAttempt(c) ==
    do'[c].tried > do[c].tried

\* C27: a call of Do starts an attempt only while fewer than MaxRetries+1
\* have been started, and, after the first, only when the attempt before it
\* failed with an error that shouldNotRetry does not classify as
\* non-retryable: never after a success, never after a non-retryable error.
C27_BoundedAttempts ==
    [][\A c \in Callers :
          StartsAttempt(c) =>
              /\ do[c].tried < httpConfig.MaxRetries + 1
              /\ do'[c].tried = do[c].tried + 1
              /\ do[c].tried > 0 =>
                     /\ ~do[c].err.nil
                     /\ ~shouldNotRetry(do[c].err)]_vars

\* with MaxRetries = 2, one call returned after a single attempt that failed
\* with a non-retryable error and another after three attempts
C27_Witness ==
    /\ httpConfig.MaxRetries = 2
    /\ \E c, d \in Callers :
           /\ do[c].pc = "done" /\ do[c].tried = 1
           /\ do[c].err = Errorf(sHTTPRequestFailed, errInvalidHost)
           /\ do[d].pc = "done" /\ do[d].tried = 3

(***************************************************************************)
(* C28: the statistics                                                     *)
(***************************************************************************)
AllReturned ==
    \A c \in Callers : do[c].pc \in {"idle", "done"}

\* C28: successfulRequests + failedRequests never exceeds totalRequests, and
\* when no call of Do is in progress the two sides are equal: every call
\* that returned was counted as a success or as a failure.
C28_StatsConsistent ==
    /\ stats.successfulRequests + stats.failedRequests <= stats.totalRequests
    /\ AllReturned =>
           stats.totalRequests =
               stats.successfulRequests + stats.failedRequests

(***************************************************************************)
(* C29: cancellation during the retry delay                                *)
(***************************************************************************)
\* C29: when the context of a call ended while Do was waiting out the retry
\* delay, Do has started no attempt since, it is leaving the select or has
\* returned, and what it returned is ctx.Err() without a response.
C29_CancelledInDelay ==
    \A c \in Callers :
        doCtx[c].during = "delay" =>
            /\ do[c].tried = doCtx[c].attempts
            /\ \/ do[c].pc = "select" /\ do[c].sel = "done"
               \/ /\ do[c].pc = "done"
                  /\ do[c].ret = [response |-> FALSE,
                                   err |-> doCtxErr(doCtx[c].err)]

\* a call with retries left was cancelled in the delay after its first
\* attempt and returned
C29_Witness ==
    \E c \in Callers :
        /\ doCtx[c].during = "delay"
        /\ httpConfig.MaxRetries = 2
        /\ do[c].pc = "done"
        /\ do[c].tried = 1
        /\ do[c].ret.err = doCtxErr("canceled")

(***************************************************************************)
(* C30: one client per API key                                             *)
(***************************************************************************)
\* C30: whatever the goroutines calling GetClient do, at most one client is
\* created for an API key and every call with that key returned the same
\* client instance.
C30_OneClientPerKey ==
    \A k \in APIKeys :
        /\ made[k] <= 1
        /\ Cardinality(handed[k]) <= 1

====
